---------------------------- MODULE Spec2Model ----------------------------
(***************************************************************************)
(* Model of monitor-switcher (src-tauri): the CCD display topology types,  *)
(* the capture/apply adapter (ccd/api.rs), the adapter-id matcher          *)
(* (ccd/matcher.rs), the DPI decoding (ccd/types.rs) and the profile       *)
(* codec (profile/convert.rs).                                             *)
(***************************************************************************)
EXTENDS Integers, Sequences, FiniteSets, TLC

VARIABLES
    pc,                       \* position inside the running operation
    settings,                 \* DisplaySettings the operation works on (mutated in place)
    additional_info,          \* MonitorAdditionalInfo list that goes with settings
    input_settings,           \* settings as they were when the operation was called
    current,                  \* live DisplaySettings captured by the operation
    current_additional_info,  \* live MonitorAdditionalInfo list
    tiers_run,                \* matcher tiers entered so far, in order
    matched_tier,             \* the tier that reported a match (0: none)
    attempts,                 \* SetDisplayConfig calls made so far: flags and status
    os_query,                 \* what the OS answered to the capture's two calls
    os_devices,               \* what the OS answers to a device-name request, per target
    result,                   \* Result returned by the operation
    dpi_request,              \* DisplayConfigSourceDpiScaleGet as the OS filled it
    dpi_info,                 \* Option<DpiScalingInfo> decoded from dpi_request
    os_dpi,                   \* the OS's answers to DPI requests, by <<adapter, source id>>
    profile,                  \* DisplayProfile written by the codec
    decoded,                  \* what the codec read back from profile
    tasks,                    \* futures spawned on the async runtime: command and position
    steps,                    \* calls load_profile has made so far, in order
    resolved_again,           \* Option: settings after a second match_adapter_ids
    xrandr_stdout,            \* what "xrandr --query" answers: exit status and lines
    outputs,                  \* Vec<OutputConfig>: the list parsed, returned or to apply
    xrandr_calls,             \* xrandr invocations made so far: the arguments of each
    geom,                     \* text handed to parse_geometry, a sequence of characters
    geometry,                 \* Option<((u32, u32), (i32, i32))> parse_geometry returned
    files,                    \* the profiles directory: file name |-> content
    store_reply,              \* what the last profile store operation returned
    saved                     \* history: name |-> profile last saved and not deleted since

vars ==
    <<pc, settings, additional_info, input_settings, current,
      current_additional_info, tiers_run, matched_tier, attempts, os_query,
      os_devices, result, dpi_request, dpi_info, os_dpi, profile, decoded,
      tasks, steps, resolved_again, xrandr_stdout, outputs, xrandr_calls, geom,
      geometry, files, store_reply, saved>>

resolverVars == <<current, current_additional_info, tiers_run, matched_tier>>

codecVars == <<dpi_request, dpi_info, os_dpi, profile, decoded>>

appVars == <<tasks, steps>>

linuxVars == <<xrandr_stdout, outputs, xrandr_calls, geom, geometry>>

storeVars == <<files, store_reply, saved>>

otherVars == <<resolved_again, linuxVars, storeVars>>

----------------------------------------------------------------------------
(* Bounds of the model                                                     *)

MaxDisplays == 2

----------------------------------------------------------------------------
(* ccd/types.rs: data model                                                *)

MODE_INFO_TYPE_SOURCE == 1
MODE_INFO_TYPE_TARGET == 2

\* LUID: two 32-bit parts, compared part by part (derive(PartialEq)).
LUID(low, high) == [low_part |-> low, high_part |-> high]

LuidDefault == LUID(0, 0)

\* mode_data is the 48-byte union, kept as twelve little-endian 32-bit words.
ModeDataWords == 12

ZeroModeData == [w \in 1..ModeDataWords |-> 0]

DisplayConfigPathInfo(sa, sid, sidx, ta, tid, tidx, rot, avail) ==
    [ source_info |->
        [ adapter_id |-> sa, id |-> sid, mode_info_idx |-> sidx, status_flags |-> 1 ],
      target_info |->
        [ adapter_id |-> ta, id |-> tid, mode_info_idx |-> tidx,
          output_technology |-> 5, rotation |-> rot, scaling |-> 1,
          refresh_rate |-> [numerator |-> 60000, denominator |-> 1001],
          scan_line_ordering |-> 1, target_available |-> avail, status_flags |-> 1 ],
      flags |-> 1 ]

DisplayConfigModeInfo(type, id, adapter, data) ==
    [ info_type |-> type, id |-> id, adapter_id |-> adapter, mode_data |-> data ]

DisplaySettings(paths, modes) ==
    [ path_info_array |-> paths, mode_info_array |-> modes ]

DisplaySettingsDefault == DisplaySettings(<<>>, <<>>)

MonitorAdditionalInfo(man, prod, valid, path, friendly) ==
    [ manufacture_id |-> man, product_code_id |-> prod, valid |-> valid,
      monitor_device_path |-> path, monitor_friendly_device |-> friendly ]

MonitorAdditionalInfoDefault == MonitorAdditionalInfo(0, 0, FALSE, "", "")

----------------------------------------------------------------------------
(* Small helpers over sequences                                            *)

Min(S) == CHOOSE x \in S : \A y \in S : x <= y

Max(S) == CHOOSE x \in S : \A y \in S : x >= y

\* Vec::retain: the elements satisfying Keep, in their order.
Retain(seq, Keep(_)) == SelectSeq(seq, Keep)

\* Position of the first element satisfying P (0 when there is none): the
\* "for ... { if ... { ...; break; } }" idiom.
FirstIndex(seq, P(_)) ==
    LET S == {i \in DOMAIN seq : P(seq[i])}
    IN  IF S = {} THEN 0 ELSE Min(S)

\* Position of the last element satisfying P (0 when there is none): a loop
\* that assigns on every match and does not break.
LastIndex(seq, P(_)) ==
    LET S == {i \in DOMAIN seq : P(seq[i])}
    IN  IF S = {} THEN 0 ELSE Max(S)

----------------------------------------------------------------------------
(* ccd/matcher.rs: the three tiers.  Each operator returns the rewritten   *)
(* settings and the bool the Rust function returns.                        *)

\* MatchPathByIds without the break: the last live path with the id pair wins.
MatchPathByIds_no_break(path, current_paths) ==
    LET j == LastIndex(current_paths,
                 LAMBDA cp : /\ path.source_info.id = cp.source_info.id
                             /\ path.target_info.id = cp.target_info.id)
    IN  IF j = 0 THEN path
        ELSE [path EXCEPT
                !.source_info.adapter_id = current_paths[j].source_info.adapter_id,
                !.target_info.adapter_id = current_paths[j].target_info.adapter_id]

\* MatchPathByIds taking the whole live path instead of its two adapter ids.
MatchPathByIds_whole_path(path, current_paths) ==
    LET j == FirstIndex(current_paths,
                 LAMBDA cp : /\ path.source_info.id = cp.source_info.id
                             /\ path.target_info.id = cp.target_info.id)
    IN  IF j = 0 THEN path ELSE current_paths[j]

\* Tier 1, first loop body: the first live path with the same id pair gives
\* both adapter ids.
MatchPathByIds(path, current_paths) ==
    LET j == FirstIndex(current_paths,
                 LAMBDA cp : /\ path.source_info.id = cp.source_info.id
                             /\ path.target_info.id = cp.target_info.id)
    IN  IF j = 0 THEN path
        ELSE [path EXCEPT
                !.source_info.adapter_id = current_paths[j].source_info.adapter_id,
                !.target_info.adapter_id = current_paths[j].target_info.adapter_id]

\* Tier 1, second loop body: the first stored path that carries the mode's id
\* on the side of the mode's kind ends the search; the adapter id then comes
\* from the first live mode of the same kind and id, if any.
MatchModeByPaths(mode, paths, current_modes) ==
    LET p == FirstIndex(paths,
                 LAMBDA path :
                    \/ /\ mode.info_type = MODE_INFO_TYPE_TARGET
                       /\ mode.id = path.target_info.id
                    \/ /\ mode.info_type = MODE_INFO_TYPE_SOURCE
                       /\ mode.id = path.source_info.id)
        c == FirstIndex(current_modes,
                 LAMBDA cm : /\ cm.info_type = mode.info_type
                             /\ cm.id = mode.id)
    IN  IF p = 0 \/ c = 0 THEN mode
        ELSE [mode EXCEPT !.adapter_id = current_modes[c].adapter_id]

\* try_match_by_ids with the "if !matched_any" return placed after the mode
\* loop: the modes are rewritten even when it reports no match.
try_match_by_ids_modes_before_return(s, cur) ==
    LET paths == [i \in DOMAIN s.path_info_array |->
                     MatchPathByIds(s.path_info_array[i], cur.path_info_array)]
        matched_any ==
            \E i \in DOMAIN s.path_info_array :
                \E j \in DOMAIN cur.path_info_array :
                    /\ s.path_info_array[i].source_info.id
                         = cur.path_info_array[j].source_info.id
                    /\ s.path_info_array[i].target_info.id
                         = cur.path_info_array[j].target_info.id
        modes == [i \in DOMAIN s.mode_info_array |->
                     MatchModeByPaths(s.mode_info_array[i], paths, cur.mode_info_array)]
    IN  [settings |-> DisplaySettings(paths, modes), matched |-> matched_any]

try_match_by_ids(s, cur) ==
    LET paths == [i \in DOMAIN s.path_info_array |->
                     MatchPathByIds(s.path_info_array[i], cur.path_info_array)]
        matched_any ==
            \E i \in DOMAIN s.path_info_array :
                \E j \in DOMAIN cur.path_info_array :
                    /\ s.path_info_array[i].source_info.id
                         = cur.path_info_array[j].source_info.id
                    /\ s.path_info_array[i].target_info.id
                         = cur.path_info_array[j].target_info.id
        modes == [i \in DOMAIN s.mode_info_array |->
                     MatchModeByPaths(s.mode_info_array[i], paths, cur.mode_info_array)]
    IN  IF ~matched_any
        THEN [settings |-> s, matched |-> FALSE]
        ELSE [settings |-> DisplaySettings(paths, modes), matched |-> TRUE]

\* The validity filter dropped: any entry at the mode's position counts.
ValidInfoAt_ignores_valid(infos, i) == i \in DOMAIN infos

\* additional_info.get(i).filter(|info| info.valid): the entry at the mode's
\* own position, when there is one and it is valid.
ValidInfoAt(infos, i) == i \in DOMAIN infos /\ infos[i].valid

\* FriendlyNameMatch without the is_empty check on the stored name.
FriendlyNameMatch_no_empty_check(s, infos, cur, cur_infos, i) ==
    LET mode == s.mode_info_array[i]
        J == {j \in DOMAIN cur.mode_info_array :
                /\ cur.mode_info_array[j].info_type = MODE_INFO_TYPE_TARGET
                /\ ValidInfoAt(cur_infos, j)
                /\ cur_infos[j].monitor_friendly_device
                     = infos[i].monitor_friendly_device}
    IN  IF /\ mode.info_type = MODE_INFO_TYPE_TARGET
           /\ ValidInfoAt(infos, i)
           /\ J # {}
        THEN Min(J) ELSE 0

\* Tier 2: position of the live mode a stored mode at position i is matched
\* to (0 when it is not matched).
FriendlyNameMatch(s, infos, cur, cur_infos, i) ==
    LET mode == s.mode_info_array[i]
        J == {j \in DOMAIN cur.mode_info_array :
                /\ cur.mode_info_array[j].info_type = MODE_INFO_TYPE_TARGET
                /\ ValidInfoAt(cur_infos, j)
                /\ cur_infos[j].monitor_friendly_device
                     = infos[i].monitor_friendly_device}
    IN  IF /\ mode.info_type = MODE_INFO_TYPE_TARGET
           /\ ValidInfoAt(infos, i)
           /\ infos[i].monitor_friendly_device # ""
           /\ J # {}
        THEN Min(J) ELSE 0

\* update_path_adapter_ids_from_modes taking both adapter ids from one live
\* path that has the same source id and the same target id.
UpdatePathFromCurrent_same_path(path, current_paths) ==
    LET j == LastIndex(current_paths,
                 LAMBDA cp : /\ path.source_info.id = cp.source_info.id
                             /\ path.target_info.id = cp.target_info.id)
    IN  IF j = 0 THEN path
        ELSE [path EXCEPT
                !.source_info.adapter_id = current_paths[j].source_info.adapter_id,
                !.target_info.adapter_id = current_paths[j].target_info.adapter_id]

\* update_path_adapter_ids_from_modes: no break, so on each side the last
\* live path with the same id wins.
UpdatePathFromCurrent(path, current_paths) ==
    LET js == LastIndex(current_paths,
                  LAMBDA cp : path.source_info.id = cp.source_info.id)
        jt == LastIndex(current_paths,
                  LAMBDA cp : path.target_info.id = cp.target_info.id)
        p1 == IF js = 0 THEN path
              ELSE [path EXCEPT !.source_info.adapter_id =
                                   current_paths[js].source_info.adapter_id]
    IN  IF jt = 0 THEN p1
        ELSE [p1 EXCEPT !.target_info.adapter_id =
                           current_paths[jt].target_info.adapter_id]

update_path_adapter_ids_from_modes(s, cur) ==
    DisplaySettings(
        [i \in DOMAIN s.path_info_array |->
            UpdatePathFromCurrent(s.path_info_array[i], cur.path_info_array)],
        s.mode_info_array)

\* try_match_by_friendly_name re-deriving the paths whether or not a mode
\* was matched.
try_match_by_friendly_name_always_update(s, infos, cur, cur_infos) ==
    LET modes == [i \in DOMAIN s.mode_info_array |->
                    LET j == FriendlyNameMatch(s, infos, cur, cur_infos, i)
                    IN  IF j = 0 THEN s.mode_info_array[i]
                        ELSE [s.mode_info_array[i] EXCEPT
                                !.adapter_id = cur.mode_info_array[j].adapter_id,
                                !.id = cur.mode_info_array[j].id]]
        matched_any == \E i \in DOMAIN s.mode_info_array :
                          FriendlyNameMatch(s, infos, cur, cur_infos, i) # 0
    IN  [settings |-> update_path_adapter_ids_from_modes(
                          DisplaySettings(s.path_info_array, modes), cur),
         matched |-> matched_any]

try_match_by_friendly_name(s, infos, cur, cur_infos) ==
    LET modes == [i \in DOMAIN s.mode_info_array |->
                    LET j == FriendlyNameMatch(s, infos, cur, cur_infos, i)
                    IN  IF j = 0 THEN s.mode_info_array[i]
                        ELSE [s.mode_info_array[i] EXCEPT
                                !.adapter_id = cur.mode_info_array[j].adapter_id,
                                !.id = cur.mode_info_array[j].id]]
        matched_any == \E i \in DOMAIN s.mode_info_array :
                          FriendlyNameMatch(s, infos, cur, cur_infos, i) # 0
    IN  IF matched_any
        THEN [settings |-> update_path_adapter_ids_from_modes(
                               DisplaySettings(s.path_info_array, modes), cur),
              matched |-> TRUE]
        ELSE [settings |-> s, matched |-> FALSE]

\* replace_all_adapter_ids without its second loop: the modes keep the old id.
replace_all_adapter_ids_paths_only(s, old_id, new_id) ==
    DisplaySettings(
        [i \in DOMAIN s.path_info_array |->
            LET p == s.path_info_array[i]
            IN  [p EXCEPT
                   !.source_info.adapter_id =
                       IF p.source_info.adapter_id = old_id THEN new_id ELSE @,
                   !.target_info.adapter_id =
                       IF p.target_info.adapter_id = old_id THEN new_id ELSE @]],
        s.mode_info_array)


replace_all_adapter_ids(s, old_id, new_id) ==
    DisplaySettings(
        [i \in DOMAIN s.path_info_array |->
            LET p == s.path_info_array[i]
            IN  [p EXCEPT
                   !.source_info.adapter_id =
                       IF p.source_info.adapter_id = old_id THEN new_id ELSE @,
                   !.target_info.adapter_id =
                       IF p.target_info.adapter_id = old_id THEN new_id ELSE @]],
        [i \in DOMAIN s.mode_info_array |->
            LET m == s.mode_info_array[i]
            IN  [m EXCEPT !.adapter_id = IF @ = old_id THEN new_id ELSE @]])

\* Tier 3 candidates without the old_id != new_id test: every pair of paths
\* with equal source id, stale or not.
BulkCandidates_equal_not_skipped(s, cur) ==
    {ij \in (DOMAIN s.path_info_array) \X (DOMAIN cur.path_info_array) :
        s.path_info_array[ij[1]].source_info.id
            = cur.path_info_array[ij[2]].source_info.id}

\* Tier 3: the (stored, live) pairs of paths with equal source id and different
\* source adapter ids; the nested loops take the first in (stored, live) order.
BulkCandidates(s, cur) ==
    {ij \in (DOMAIN s.path_info_array) \X (DOMAIN cur.path_info_array) :
        /\ s.path_info_array[ij[1]].source_info.id
             = cur.path_info_array[ij[2]].source_info.id
        /\ s.path_info_array[ij[1]].source_info.adapter_id
             # cur.path_info_array[ij[2]].source_info.adapter_id}

FirstBulkCandidate(s, cur) ==
    CHOOSE ij \in BulkCandidates(s, cur) :
        \A kl \in BulkCandidates(s, cur) :
            \/ ij[1] < kl[1]
            \/ (ij[1] = kl[1] /\ ij[2] <= kl[2])

try_bulk_replacement(s, cur) ==
    IF BulkCandidates(s, cur) = {}
    THEN [settings |-> s, matched |-> FALSE]
    ELSE LET ij == FirstBulkCandidate(s, cur)
         IN  [settings |->
                 replace_all_adapter_ids(s,
                     s.path_info_array[ij[1]].source_info.adapter_id,
                     cur.path_info_array[ij[2]].source_info.adapter_id),
              matched |-> TRUE]

----------------------------------------------------------------------------
(* ccd/types.rs: the mode_data union                                       *)

\* A 32-bit word of mode_data is written as the integer of -2^31 .. 2^31-1
\* that has the same bits, so an i32 field is its word, and so is every u32
\* below 2^31 (the u32 values the model uses).  The u64 pixel_rate covers two
\* words and is kept as its low and high word.
\* set_source_mode: clear all 48 bytes, then copy the 20 bytes of the source mode.
set_source_mode(sm) ==
    [w \in 1..ModeDataWords |->
        CASE w = 1 -> sm.width
          [] w = 2 -> sm.height
          [] w = 3 -> sm.pixel_format
          [] w = 4 -> sm.position.x
          [] w = 5 -> sm.position.y
          [] OTHER -> 0]

\* get_source_mode: the first 20 bytes read as a DisplayConfigSourceMode.
get_source_mode(data) ==
    [ width |-> data[1], height |-> data[2], pixel_format |-> data[3],
      position |-> [x |-> data[4], y |-> data[5]] ]

\* set_target_mode: copy the 48 bytes of the target mode.
set_target_mode(tm) ==
    LET v == tm.target_video_signal_info
    IN  [w \in 1..ModeDataWords |->
            CASE w = 1 -> v.pixel_rate.low
              [] w = 2 -> v.pixel_rate.high
              [] w = 3 -> v.h_sync_freq.numerator
              [] w = 4 -> v.h_sync_freq.denominator
              [] w = 5 -> v.v_sync_freq.numerator
              [] w = 6 -> v.v_sync_freq.denominator
              [] w = 7 -> v.active_size.cx
              [] w = 8 -> v.active_size.cy
              [] w = 9 -> v.total_size.cx
              [] w = 10 -> v.total_size.cy
              [] w = 11 -> v.video_standard
              [] OTHER -> v.scan_line_ordering]

\* get_target_mode: the 48 bytes read as a DisplayConfigTargetMode.
get_target_mode(data) ==
    [ target_video_signal_info |->
        [ pixel_rate |-> [low |-> data[1], high |-> data[2]],
          h_sync_freq |-> [numerator |-> data[3], denominator |-> data[4]],
          v_sync_freq |-> [numerator |-> data[5], denominator |-> data[6]],
          active_size |-> [cx |-> data[7], cy |-> data[8]],
          total_size |-> [cx |-> data[9], cy |-> data[10]],
          video_standard |-> data[11],
          scan_line_ordering |-> data[12] ] ]

----------------------------------------------------------------------------
(* ccd/api.rs: what the OS answers, and the capture                        *)

\* The Result an operation returns: Ok(()), or Err with the text naming the
\* call that failed and the status code it gave; none before it returns.
ResultNone == [status |-> "none"]

ResultOk == [status |-> "Ok"]

ResultErr(call, code) == [status |-> "Err", call |-> call, code |-> code]

Ok(v) == [ok |-> TRUE, value |-> v]

Err(call, code) == [ok |-> FALSE, call |-> call, code |-> code]

\* One answer of the OS to the two calls of a capture: the buffer sizes of
\* GetDisplayConfigBufferSizes and the arrays QueryDisplayConfig filled,
\* already cut to the counts it reported.
OsQueryAnswer(sizes_result, num_paths, num_modes, query_result, paths, modes) ==
    [ sizes_result |-> sizes_result, num_paths |-> num_paths,
      num_modes |-> num_modes, query_result |-> query_result,
      paths |-> paths, modes |-> modes ]

\* get_display_settings without the retain on the mode array.
get_display_settings_modes_unfiltered(os) ==
    IF os.sizes_result # 0
    THEN Err("GetDisplayConfigBufferSizes", os.sizes_result)
    ELSE IF os.num_paths = 0 \/ os.num_modes = 0
    THEN Ok(DisplaySettingsDefault)
    ELSE IF os.query_result # 0
    THEN Err("QueryDisplayConfig", os.query_result)
    ELSE Ok(DisplaySettings(
                Retain(os.paths, LAMBDA p : p.target_info.target_available # 0),
                os.modes))

NoQuery == OsQueryAnswer(0, 0, 0, 0, <<>>, <<>>)

get_display_settings(os) ==
    IF os.sizes_result # 0
    THEN Err("GetDisplayConfigBufferSizes", os.sizes_result)
    ELSE IF os.num_paths = 0 \/ os.num_modes = 0
    THEN Ok(DisplaySettingsDefault)
    ELSE IF os.query_result # 0
    THEN Err("QueryDisplayConfig", os.query_result)
    ELSE Ok(DisplaySettings(
                Retain(os.paths, LAMBDA p : p.target_info.target_available # 0),
                Retain(os.modes, LAMBDA m : m.info_type # 0)))

\* The OS's answer to DisplayConfigGetDeviceInfo for a target: devices is the
\* list of targets it knows, the first entry with the key answers; an unknown
\* target is refused.
DeviceInfoAnswer(devices, adapter_id, target_id) ==
    LET k == FirstIndex(devices,
                 LAMBDA d : d.adapter_id = adapter_id /\ d.id = target_id)
    IN  IF k = 0 THEN [result |-> 87] ELSE devices[k].answer

get_monitor_additional_info(devices, adapter_id, target_id) ==
    LET a == DeviceInfoAnswer(devices, adapter_id, target_id)
    IN  IF a.result = 0
        THEN MonitorAdditionalInfo(a.edid_manufacture_id, a.edid_product_code_id,
                                   TRUE, a.monitor_device_path,
                                   a.monitor_friendly_device_name)
        ELSE MonitorAdditionalInfoDefault

\* get_additional_info_for_modes giving an entry for the target modes only.
get_additional_info_for_modes_targets_only(devices, mode_info_array) ==
    LET kept == SelectSeq([i \in DOMAIN mode_info_array |-> i],
                          LAMBDA i : mode_info_array[i].info_type
                                        = MODE_INFO_TYPE_TARGET)
    IN  [k \in DOMAIN kept |->
            get_monitor_additional_info(devices, mode_info_array[kept[k]].adapter_id,
                                        mode_info_array[kept[k]].id)]

get_additional_info_for_modes(devices, mode_info_array) ==
    [i \in DOMAIN mode_info_array |->
        IF mode_info_array[i].info_type = MODE_INFO_TYPE_TARGET
        THEN get_monitor_additional_info(devices, mode_info_array[i].adapter_id,
                                         mode_info_array[i].id)
        ELSE MonitorAdditionalInfoDefault]

----------------------------------------------------------------------------
(* ccd/matcher.rs: match_adapter_ids                                       *)

\* match_adapter_ids without the early returns: every tier runs on what the
\* tier before left.
match_adapter_ids_no_return(s, infos, cur, cur_infos) ==
    LET t1 == try_match_by_ids(s, cur)
        t2 == try_match_by_friendly_name(t1.settings, infos, cur, cur_infos)
        t3 == try_bulk_replacement(t2.settings, cur)
    IN  [settings |-> t3.settings, tiers_run |-> <<1, 2, 3>>,
         matched_tier |-> IF t3.matched THEN 3
                          ELSE IF t2.matched THEN 2
                          ELSE IF t1.matched THEN 1 ELSE 0]

\* The tiers in order on the one settings value they all mutate, each
\* entered only when the one before returned false; the Result is Ok
\* whichever tier matched, and when none did.
match_adapter_ids(s, infos, cur, cur_infos) ==
    LET t1 == try_match_by_ids(s, cur)
        t2 == try_match_by_friendly_name(t1.settings, infos, cur, cur_infos)
        t3 == try_bulk_replacement(t2.settings, cur)
    IN  IF t1.matched
        THEN [settings |-> t1.settings, tiers_run |-> <<1>>, matched_tier |-> 1]
        ELSE IF t2.matched
        THEN [settings |-> t2.settings, tiers_run |-> <<1, 2>>, matched_tier |-> 2]
        ELSE [settings |-> t3.settings, tiers_run |-> <<1, 2, 3>>,
              matched_tier |-> IF t3.matched THEN 3 ELSE 0]

----------------------------------------------------------------------------
(* ccd/types.rs: DPI decoding                                              *)

None == [some |-> FALSE]

Some(v) == [some |-> TRUE, value |-> v]

\* The largest and the smallest i32.
I32Max == 2147483647

I32Min == -I32Max - 1

\* "-x" on i32 as a build without overflow checks computes it: -(-2^31) wraps
\* to -2^31.
I32Neg(x) == IF x = I32Min THEN I32Min ELSE -x

\* "a + b" on i32 as a build without overflow checks computes it: the sum
\* modulo 2^32, written so that no intermediate value leaves the i32 range.
I32Add(a, b) ==
    IF b > 0 /\ a > I32Max - b
    THEN (a - I32Max - 1) + (b - I32Max - 1)
    ELSE IF b < 0 /\ a < I32Min - b
    THEN (a + I32Max + 1) + (b + I32Max + 1)
    ELSE a + b

DPI_VALUES == <<100, 125, 150, 175, 200, 225, 250, 300, 350, 400, 450, 500>>

\* DPI_VALUES.get(idx).copied().  idx is the usize an i32 was cast to ("as
\* usize" sign-extends): it is written as that i32, a negative one standing
\* for the index 2^64 + idx, which is past the end of every table.
dpi_from_index(idx) ==
    IF 0 <= idx /\ idx < Len(DPI_VALUES) THEN Some(DPI_VALUES[idx + 1]) ELSE None

\* DPI_VALUES.iter().position(|&v| v == dpi)
dpi_to_index(dpi) ==
    IF \E i \in DOMAIN DPI_VALUES : DPI_VALUES[i] = dpi
    THEN Some(Min({i \in DOMAIN DPI_VALUES : DPI_VALUES[i] = dpi}) - 1)
    ELSE None

DisplayConfigSourceDpiScaleGet(min_rel, cur_rel, max_rel) ==
    [ min_scale_rel |-> min_rel, cur_scale_rel |-> cur_rel, max_scale_rel |-> max_rel ]

DisplayConfigSourceDpiScaleGetDefault == DisplayConfigSourceDpiScaleGet(0, 0, 0)

DpiScalingInfo(minimum, maximum, cur, recommended) ==
    [ minimum |-> minimum, maximum |-> maximum, current |-> cur,
      recommended |-> recommended ]

\* "-x" leaves the i32 range: only for the most negative value.  A build
\* with overflow checks panics there, one without wraps (I32Neg).
I32NegOverflows(x) == x = I32Min

\* "a + b" leaves the i32 range.
I32AddOverflows(a, b) ==
    \/ b > 0 /\ a > I32Max - b
    \/ b < 0 /\ a < I32Min - b

\* The arithmetic of to_dpi_info overflows on this input: the input passes
\* the validation and the negation, or one of the two additions on the
\* recommended index, leaves the i32 range.
to_dpi_info_overflows(self) ==
    /\ ~(self.cur_scale_rel < self.min_scale_rel \/ self.cur_scale_rel > self.max_scale_rel)
    /\ \/ I32NegOverflows(self.min_scale_rel)
       \/ I32AddOverflows(I32Neg(self.min_scale_rel), self.cur_scale_rel)
       \/ I32AddOverflows(I32Neg(self.min_scale_rel), self.max_scale_rel)

\* to_dpi_info without the check that current lies between min and max.
to_dpi_info_no_validation(self) ==
    LET recommended_idx == I32Neg(self.min_scale_rel)
        current_idx == I32Add(recommended_idx, self.cur_scale_rel)
        max_idx == I32Add(recommended_idx, self.max_scale_rel)
        maximum == dpi_from_index(max_idx)
        cur == dpi_from_index(current_idx)
        recommended == dpi_from_index(recommended_idx)
    IN  IF ~maximum.some \/ ~cur.some \/ ~recommended.some
        THEN None
        ELSE Some(DpiScalingInfo(100, maximum.value, cur.value, recommended.value))

\* to_dpi_info: "recommended_idx as i32" gives back the i32 the index was
\* cast from; each "?" returns None for an index outside the table.
to_dpi_info(self) ==
    IF self.cur_scale_rel < self.min_scale_rel \/ self.cur_scale_rel > self.max_scale_rel
    THEN None
    ELSE LET recommended_idx == I32Neg(self.min_scale_rel)
             current_idx == I32Add(recommended_idx, self.cur_scale_rel)
             max_idx == I32Add(recommended_idx, self.max_scale_rel)
             maximum == dpi_from_index(max_idx)
             cur == dpi_from_index(current_idx)
             recommended == dpi_from_index(recommended_idx)
         IN  IF ~maximum.some \/ ~cur.some \/ ~recommended.some
             THEN None
             ELSE Some(DpiScalingInfo(100, maximum.value, cur.value, recommended.value))

\* What DisplayConfigGetDeviceInfo answers to the DPI request (type -3) for
\* a source: its status and the structure it filled.
DpiAnswer(status, min_rel, cur_rel, max_rel) ==
    [ result |-> status,
      request |-> DisplayConfigSourceDpiScaleGet(min_rel, cur_rel, max_rel) ]

\* get_dpi_scaling_info(adapter_id, source_id): the OS is asked for the
\* relative DPI values of the source; a failed call gives None, an answer is
\* decoded by to_dpi_info.  os_dpi_answers maps <<adapter_id, source_id>> to
\* the answer of the OS.
get_dpi_scaling_info(os_dpi_answers, adapter_id, source_id) ==
    LET key == <<adapter_id, source_id>>
    IN  IF key \notin DOMAIN os_dpi_answers THEN None
        ELSE IF os_dpi_answers[key].result # 0 THEN None
        ELSE to_dpi_info(os_dpi_answers[key].request)

----------------------------------------------------------------------------
(* profile/types.rs, profile/convert.rs: the profile and its codec         *)

AdapterId(luid) == [low_part |-> luid.low_part, high_part |-> luid.high_part]

DisplayProfile(version, paths, modes, additional, dpi) ==
    [ version |-> version, path_info_array |-> paths, mode_info_array |-> modes,
      additional_info |-> additional, dpi_scale_info |-> dpi ]

DisplayProfileDefault == DisplayProfile(1, <<>>, <<>>, <<>>, <<>>)

DpiScaleInfo(source_id, dpi_scale) ==
    [ source_id |-> source_id, dpi_scale |-> dpi_scale ]

\* target_available is a u32 in the path and a bool in the profile.
path_info_to_json(p) ==
    [ source_info |->
        [ adapter_id |-> AdapterId(p.source_info.adapter_id),
          id |-> p.source_info.id,
          mode_info_idx |-> p.source_info.mode_info_idx,
          status_flags |-> p.source_info.status_flags ],
      target_info |->
        [ adapter_id |-> AdapterId(p.target_info.adapter_id),
          id |-> p.target_info.id,
          mode_info_idx |-> p.target_info.mode_info_idx,
          output_technology |-> p.target_info.output_technology,
          rotation |-> p.target_info.rotation,
          scaling |-> p.target_info.scaling,
          refresh_rate |->
            [ numerator |-> p.target_info.refresh_rate.numerator,
              denominator |-> p.target_info.refresh_rate.denominator ],
          scan_line_ordering |-> p.target_info.scan_line_ordering,
          target_available |-> (p.target_info.target_available # 0),
          status_flags |-> p.target_info.status_flags ],
      flags |-> p.flags ]

path_info_from_json(p) ==
    [ source_info |->
        [ adapter_id |-> LUID(p.source_info.adapter_id.low_part,
                              p.source_info.adapter_id.high_part),
          id |-> p.source_info.id,
          mode_info_idx |-> p.source_info.mode_info_idx,
          status_flags |-> p.source_info.status_flags ],
      target_info |->
        [ adapter_id |-> LUID(p.target_info.adapter_id.low_part,
                              p.target_info.adapter_id.high_part),
          id |-> p.target_info.id,
          mode_info_idx |-> p.target_info.mode_info_idx,
          output_technology |-> p.target_info.output_technology,
          rotation |-> p.target_info.rotation,
          scaling |-> p.target_info.scaling,
          refresh_rate |->
            [ numerator |-> p.target_info.refresh_rate.numerator,
              denominator |-> p.target_info.refresh_rate.denominator ],
          scan_line_ordering |-> p.target_info.scan_line_ordering,
          target_available |-> IF p.target_info.target_available THEN 1 ELSE 0,
          status_flags |-> p.target_info.status_flags ],
      flags |-> p.flags ]

\* mode_info_to_json writing both readings of the union whatever the tag.
mode_info_to_json_both_payloads(m) ==
    [ info_type |-> m.info_type, id |-> m.id,
      adapter_id |-> AdapterId(m.adapter_id),
      target_mode |-> Some(get_target_mode(m.mode_data)),
      source_mode |-> Some(get_source_mode(m.mode_data)) ]

\* The payload written is the one the kind tag names; a mode of any other
\* kind gets neither.  "pixel_rate as i64" keeps the 64 bits, so the two
\* words stay as they are.
mode_info_to_json(m) ==
    LET tm == get_target_mode(m.mode_data)
        sm == get_source_mode(m.mode_data)
        payload ==
            IF m.info_type = MODE_INFO_TYPE_TARGET
            THEN [target_mode |-> Some(tm), source_mode |-> None]
            ELSE IF m.info_type = MODE_INFO_TYPE_SOURCE
            THEN [target_mode |-> None, source_mode |-> Some(sm)]
            ELSE [target_mode |-> None, source_mode |-> None]
    IN  [ info_type |-> m.info_type, id |-> m.id,
          adapter_id |-> AdapterId(m.adapter_id),
          target_mode |-> payload.target_mode,
          source_mode |-> payload.source_mode ]

\* The payload read is the one that is present, the target mode first; the
\* kind tag is copied and not consulted.
mode_info_from_json(m) ==
    DisplayConfigModeInfo(
        m.info_type, m.id, LUID(m.adapter_id.low_part, m.adapter_id.high_part),
        IF m.target_mode.some THEN set_target_mode(m.target_mode.value)
        ELSE IF m.source_mode.some THEN set_source_mode(m.source_mode.value)
        ELSE ZeroModeData)

\* settings_to_profile: paths, modes and monitor infos are converted one by
\* one; dpi_scale_info holds, in path order, an entry for every path whose
\* source the OS reports a DPI for at this moment.
settings_to_profile(s, infos, os_dpi_answers) ==
    LET paths == s.path_info_array
        dpi == [k \in DOMAIN paths |->
                    get_dpi_scaling_info(os_dpi_answers,
                                         paths[k].source_info.adapter_id,
                                         paths[k].source_info.id)]
        kept == SelectSeq([k \in DOMAIN paths |-> k], LAMBDA k : dpi[k].some)
    IN  DisplayProfile(
            1,
            [k \in DOMAIN paths |-> path_info_to_json(paths[k])],
            [i \in DOMAIN s.mode_info_array |-> mode_info_to_json(s.mode_info_array[i])],
            [i \in DOMAIN infos |->
                [ manufacture_id |-> infos[i].manufacture_id,
                  product_code_id |-> infos[i].product_code_id,
                  valid |-> infos[i].valid,
                  monitor_device_path |-> infos[i].monitor_device_path,
                  monitor_friendly_device |-> infos[i].monitor_friendly_device ]],
            [j \in DOMAIN kept |->
                DpiScaleInfo(paths[kept[j]].source_info.id, dpi[kept[j]].value.current)])

\* profile_to_settings: the pair (DisplaySettings, Vec<MonitorAdditionalInfo>);
\* version and dpi_scale_info of the profile are not read.
profile_to_settings(p) ==
    [ settings |->
        DisplaySettings(
            [k \in DOMAIN p.path_info_array |-> path_info_from_json(p.path_info_array[k])],
            [i \in DOMAIN p.mode_info_array |-> mode_info_from_json(p.mode_info_array[i])]),
      additional_info |->
        [i \in DOMAIN p.additional_info |->
            MonitorAdditionalInfo(p.additional_info[i].manufacture_id,
                                  p.additional_info[i].product_code_id,
                                  p.additional_info[i].valid,
                                  p.additional_info[i].monitor_device_path,
                                  p.additional_info[i].monitor_friendly_device)] ]

\* The pair profile_to_settings returns for the default profile.
NothingDecoded == [settings |-> DisplaySettingsDefault, additional_info |-> <<>>]

----------------------------------------------------------------------------
(* display/linux/xrandr.rs: text.  A &str is the sequence of its           *)
(* characters, each a one-character string; Rust indexes a &str by bytes,  *)
(* and a character outside ASCII takes more than one byte.                 *)

Digits == {"0", "1", "2", "3", "4", "5", "6", "7", "8", "9"}

\* char::to_digit(10) of a decimal digit.
DigitValue(c) ==
    CASE c = "0" -> 0 [] c = "1" -> 1 [] c = "2" -> 2 [] c = "3" -> 3
      [] c = "4" -> 4 [] c = "5" -> 5 [] c = "6" -> 6 [] c = "7" -> 7
      [] c = "8" -> 8 [] OTHER -> 9

\* Length of the UTF-8 encoding of a character: the ASCII characters of the
\* model take one byte, U+00E9 (e with acute accent, written "U+00E9" as a
\* character of a text) takes two.
CharBytes(c) == IF c = "U+00E9" THEN 2 ELSE 1

\* str::len: the length in bytes.
RECURSIVE ByteLen(_)
ByteLen(text) ==
    IF text = <<>> THEN 0 ELSE CharBytes(Head(text)) + ByteLen(Tail(text))

\* The number of leading characters of text that end at byte offset n, or -1
\* when n is not a character boundary: slicing text at n panics then.
CharsBefore(text, n) ==
    LET S == {k \in 0..Len(text) : ByteLen(SubSeq(text, 1, k)) = n}
    IN  IF S = {} THEN -1 ELSE CHOOSE k \in S : TRUE

\* The value of a run of decimal digits.  The texts of the model are short,
\* so no value reaches 2^31 and the overflow error of parse() is not met.
RECURSIVE DecimalValue(_)
DecimalValue(ds) ==
    IF ds = <<>> THEN 0
    ELSE DecimalValue(SubSeq(ds, 1, Len(ds) - 1)) * 10 + DigitValue(ds[Len(ds)])

AllDigits(text) == \A k \in DOMAIN text : text[k] \in Digits

\* str::parse::<u32>(): an optional "+" and then one digit or more.
parse_u32(text) ==
    LET ds == IF text # <<>> /\ Head(text) = "+" THEN Tail(text) ELSE text
    IN  IF ds # <<>> /\ AllDigits(ds) THEN Some(DecimalValue(ds)) ELSE None

\* str::parse::<i32>(): an optional "+" or "-" and then one digit or more.
parse_i32(text) ==
    LET signed == text # <<>> /\ Head(text) \in {"+", "-"}
        ds == IF signed THEN Tail(text) ELSE text
    IN  IF ds # <<>> /\ AllDigits(ds)
        THEN Some(IF signed /\ Head(text) = "-" THEN -DecimalValue(ds)
                  ELSE DecimalValue(ds))
        ELSE None

\* str::split(sep).collect(): the pieces between the separators; a text
\* without the separator is one piece.
RECURSIVE Split(_, _)
Split(text, sep) ==
    LET S == {k \in DOMAIN text : text[k] = sep}
    IN  IF S = {} THEN <<text>>
        ELSE <<SubSeq(text, 1, Min(S) - 1)>>
                \o Split(SubSeq(text, Min(S) + 1, Len(text)), sep)

\* The longest run of ASCII digits of text that starts at position from:
\* "while let Some(&c) = chars.peek() { if c.is_ascii_digit() ... else break }".
DigitRun(text, from) ==
    LET stop == {k \in from..Len(text) : text[k] \notin Digits}
        last == IF stop = {} THEN Len(text) ELSE Min(stop) - 1
    IN  SubSeq(text, from, last)

\* A panic of the thread that ran the function, in place of a return value.
Panicked == [some |-> FALSE, panicked |-> TRUE]

\* parse_position: the first character is consumed as the sign of X and the
\* digits after it are X; the next character is consumed as the sign of Y
\* and the digits after it are Y; a consumed character that is no sign leaves
\* its number empty.  What follows the digits of Y is not read.
parse_position(pos) ==
    LET x_signed == pos # <<>> /\ pos[1] \in {"+", "-"}
        x_digits == IF x_signed THEN DigitRun(pos, 2) ELSE <<>>
        x_str == IF x_signed /\ pos[1] = "-" THEN <<"-">> \o x_digits ELSE x_digits
        at == IF pos = <<>> THEN 1 ELSE 2 + Len(x_digits)
        y_signed == at <= Len(pos) /\ pos[at] \in {"+", "-"}
        y_digits == IF y_signed THEN DigitRun(pos, at + 1) ELSE <<>>
        y_str == IF y_signed /\ pos[at] = "-" THEN <<"-">> \o y_digits ELSE y_digits
        x == parse_i32(x_str)
        y == parse_i32(y_str)
    IN  IF ~x.some \/ ~y.some THEN None ELSE Some(<<x.value, y.value>>)

\* parse_geometry: split at "x" into exactly two parts, the width and the
\* rest; height_end is the position among the characters of the rest of its
\* first "+" or "-" (its byte length when it has none), and is then used as
\* a byte offset to slice the rest into the height and the position.
parse_geometry(g) ==
    LET parts == Split(g, "x")
    IN  IF Len(parts) # 2 THEN None
        ELSE
        LET width == parse_u32(parts[1])
            rest == parts[2]
            sign == FirstIndex(rest, LAMBDA c : c = "+" \/ c = "-")
            height_end == IF sign = 0 THEN ByteLen(rest) ELSE sign - 1
            k == CharsBefore(rest, height_end)
            height == parse_u32(SubSeq(rest, 1, k))
            position == parse_position(SubSeq(rest, k + 1, Len(rest)))
        IN  IF ~width.some THEN None
            ELSE IF k = -1 THEN Panicked
            ELSE IF ~height.some THEN None
            ELSE IF height_end >= ByteLen(rest)
            THEN Some(<<<<width.value, height.value>>, <<0, 0>>>>)
            ELSE IF ~position.some THEN None
            ELSE Some(<<<<width.value, height.value>>, position.value>>)

----------------------------------------------------------------------------
(* display/linux/types.rs and xrandr.rs: outputs and the parsing of        *)
(* "xrandr --query".  A line of the answer is its indentation (the number  *)
(* of leading blanks) and its words (split_whitespace), each word a text;  *)
(* an f32 is kept in hundredths.                                           *)

OutputConfig(name, enabled, primary, width, height, refresh_rate, pos_x, pos_y, rotation, scale) ==
    [ name |-> name, enabled |-> enabled, primary |-> primary, width |-> width,
      height |-> height, refresh_rate |-> refresh_rate, pos_x |-> pos_x,
      pos_y |-> pos_y, rotation |-> rotation, scale |-> scale ]

\* impl Default for OutputConfig: refresh_rate 60.0, scale 1.0.
OutputConfigDefault ==
    OutputConfig(<<>>, FALSE, FALSE, 0, 0, 6000, 0, 0, "Normal", 100)

Line(indent, parts) == [indent |-> indent, parts |-> parts]

WordConnected == <<"c", "o", "n", "n", "e", "c", "t", "e", "d">>

WordDisconnected == <<"d", "i", "s", "c", "o", "n", "n", "e", "c", "t", "e", "d">>

WordPrimary == <<"p", "r", "i", "m", "a", "r", "y">>

\* char::to_lowercase on the ASCII letters; every other character of the
\* model is its own lowercase.
ToLowerChar(c) ==
    CASE c = "A" -> "a"
      [] c = "B" -> "b"
      [] c = "C" -> "c"
      [] c = "D" -> "d"
      [] c = "E" -> "e"
      [] c = "F" -> "f"
      [] c = "G" -> "g"
      [] c = "H" -> "h"
      [] c = "I" -> "i"
      [] c = "J" -> "j"
      [] c = "K" -> "k"
      [] c = "L" -> "l"
      [] c = "M" -> "m"
      [] c = "N" -> "n"
      [] c = "O" -> "o"
      [] c = "P" -> "p"
      [] c = "Q" -> "q"
      [] c = "R" -> "r"
      [] c = "S" -> "s"
      [] c = "T" -> "t"
      [] c = "U" -> "u"
      [] c = "V" -> "v"
      [] c = "W" -> "w"
      [] c = "X" -> "x"
      [] c = "Y" -> "y"
      [] c = "Z" -> "z"
      [] OTHER -> c

to_lowercase(text) == [k \in DOMAIN text |-> ToLowerChar(text[k])]

StartsWith(text, prefix) ==
    Len(text) >= Len(prefix) /\ SubSeq(text, 1, Len(prefix)) = prefix

\* line.contains(" " + word): a blank and then the word can only begin at
\* the start of a word of the line that has a blank before it.
ContainsAfterBlank(line, word) ==
    \E i \in DOMAIN line.parts :
        /\ i > 1 \/ line.indent > 0
        /\ StartsWith(line.parts[i], word)

\* line.contains('*')
ContainsStar(line) ==
    \E i \in DOMAIN line.parts : \E k \in DOMAIN line.parts[i] : line.parts[i][k] = "*"

\* Rotation::from_xrandr
from_xrandr(text) ==
    LET l == to_lowercase(text)
    IN  CASE l = <<"l", "e", "f", "t">> -> "Left"
          [] l = <<"r", "i", "g", "h", "t">> -> "Right"
          [] l = <<"i", "n", "v", "e", "r", "t", "e", "d">> -> "Inverted"
          [] OTHER -> "Normal"

\* Rotation::to_xrandr_arg
to_xrandr_arg(rotation) ==
    CASE rotation = "Left" -> <<"l", "e", "f", "t">>
      [] rotation = "Right" -> <<"r", "i", "g", "h", "t">>
      [] rotation = "Inverted" -> <<"i", "n", "v", "e", "r", "t", "e", "d">>
      [] OTHER -> <<"n", "o", "r", "m", "a", "l">>

\* str::trim_end_matches('i')
RECURSIVE trim_end_matches_i(_)
trim_end_matches_i(text) ==
    IF text # <<>> /\ text[Len(text)] = "i"
    THEN trim_end_matches_i(SubSeq(text, 1, Len(text) - 1))
    ELSE text

\* str::parse::<f32>() on the texts a rate can be here: an optional "-",
\* digits, and optionally a "." with digits, one digit at least; the value in
\* hundredths, decimals after the second dropped.
parse_f32(text) ==
    LET negative == text # <<>> /\ Head(text) = "-"
        body == IF negative THEN Tail(text) ELSE text
        parts == Split(body, ".")
        whole == parts[1]
        frac == IF Len(parts) = 2 THEN parts[2] ELSE <<>>
        frac2 == SubSeq(frac \o <<"0", "0">>, 1, 2)
        value == DecimalValue(whole) * 100 + DecimalValue(frac2)
    IN  IF /\ Len(parts) <= 2
           /\ AllDigits(whole) /\ AllDigits(frac)
           /\ Len(whole) + Len(frac) >= 1
        THEN Some(IF negative THEN -value ELSE value)
        ELSE None

\* part.replace(['*', '+'], "")
WithoutStarAndPlus(text) == SelectSeq(text, LAMBDA c : c # "*" /\ c # "+")

\* parse_mode_line, on the words of the trimmed line: the first word is
\* WIDTHxHEIGHT with trailing "i"s of the height dropped; the rate is that of
\* the first later word that holds a "*" and parses, 60.0 when there is none.
parse_mode_line(parts) ==
    IF parts = <<>> THEN None
    ELSE
    LET res_parts == Split(parts[1], "x")
    IN  IF Len(res_parts) # 2 THEN None
        ELSE
        LET width == parse_u32(res_parts[1])
            height == parse_u32(trim_end_matches_i(res_parts[2]))
            rated == {i \in 2..Len(parts) :
                        /\ \E k \in DOMAIN parts[i] : parts[i][k] = "*"
                        /\ parse_f32(WithoutStarAndPlus(parts[i])).some}
            refresh == IF rated = {} THEN 6000
                       ELSE parse_f32(WithoutStarAndPlus(parts[Min(rated)])).value
        IN  IF ~width.some \/ ~height.some THEN None
            ELSE Some(<<width.value, height.value, refresh>>)

\* The body of the loop of parse_xrandr_output for a header line: the output
\* it starts, or Panicked when parse_geometry panics.
HeaderOutput(parts, geom_r) ==
    LET name == parts[1]
        connected == Len(parts) >= 2 /\ parts[2] = WordConnected
        primary == Len(parts) >= 3 /\ parts[3] = WordPrimary
        idx == IF primary THEN 4 ELSE 3
        idx2 == IF geom_r.some THEN idx + 1 ELSE idx
        rotation == IF Len(parts) >= idx2 /\ ~StartsWith(parts[idx2], <<"(">>)
                    THEN from_xrandr(parts[idx2]) ELSE "Normal"
        config == [OutputConfigDefault EXCEPT
                      !.name = name, !.primary = primary, !.rotation = rotation]
    IN  IF ~connected THEN Some([OutputConfigDefault EXCEPT !.name = name])
        ELSE IF geom_r = Panicked THEN Panicked
        ELSE IF geom_r.some
        THEN Some([config EXCEPT
                      !.width = geom_r.value[1][1], !.height = geom_r.value[1][2],
                      !.pos_x = geom_r.value[2][1], !.pos_y = geom_r.value[2][2],
                      !.enabled = TRUE])
        ELSE Some(config)

\* The header line with what parse_geometry makes of the word after
\* "connected" or "primary" (None when the line ends before it).
ParseHeader(line) ==
    LET parts == line.parts
        idx == IF Len(parts) >= 3 /\ parts[3] = WordPrimary THEN 4 ELSE 3
    IN  HeaderOutput(parts, IF Len(parts) >= idx THEN parse_geometry(parts[idx]) ELSE None)

\* The body of the loop for a mode line of the output being read: only the
\* line of the active mode (the one with a "*") sets anything.
ParseModeLine(line, output) ==
    LET m == parse_mode_line(line.parts)
    IN  IF ContainsStar(line) /\ m.some
        THEN [output EXCEPT !.width = m.value[1], !.height = m.value[2],
                            !.refresh_rate = m.value[3], !.enabled = TRUE]
        ELSE output

IsHeaderLine(line) ==
    ContainsAfterBlank(line, WordConnected) \/ ContainsAfterBlank(line, WordDisconnected)

\* The loop of parse_xrandr_output from line k on, with the outputs pushed
\* so far and the output being read (an Option, or Panicked when the header
\* line before line k made parse_geometry panic).
RECURSIVE ParseLines(_, _, _, _)
ParseLines(lines, k, pushed, current_output) ==
    IF current_output = Panicked THEN Panicked
    ELSE IF k > Len(lines)
    THEN Some(IF current_output.some THEN Append(pushed, current_output.value)
              ELSE pushed)
    ELSE
    LET line == lines[k]
        saved_outputs == IF current_output.some
                         THEN Append(pushed, current_output.value) ELSE pushed
    IN  IF IsHeaderLine(line)
        THEN IF line.parts = <<>>
             THEN ParseLines(lines, k + 1, saved_outputs, None)
             ELSE ParseLines(lines, k + 1, saved_outputs, ParseHeader(line))
        ELSE IF line.indent >= 3 /\ current_output.some
        THEN ParseLines(lines, k + 1, pushed,
                        Some(ParseModeLine(line, current_output.value)))
        ELSE ParseLines(lines, k + 1, pushed, current_output)

\* parse_xrandr_output: the outputs in the order of their header lines, or
\* Panicked.
parse_xrandr_output(lines) == ParseLines(lines, 1, <<>>, None)

\* What running "xrandr --query" gives: the command could not be executed,
\* it exited with a failure, or it exited with success and printed lines.
XrandrAnswer(status, lines) == [status |-> status, lines |-> lines]

NoXrandrAnswer == XrandrAnswer("not_run", <<>>)

\* What query_outputs returns for what parse_xrandr_output gave: the parsed
\* outputs, only the enabled ones when active_only.
QueriedOutputs(parsed, active_only) ==
    IF parsed = Panicked THEN Panicked
    ELSE IF active_only
    THEN Ok(SelectSeq(parsed.value, LAMBDA o : o.enabled))
    ELSE Ok(parsed.value)

\* query_outputs: the error of the command, or the outputs parsed from what
\* it printed.
query_outputs(answer, active_only) ==
    IF answer.status = "spawn_failed" THEN Err("Command::output", 2)
    ELSE IF answer.status = "exit_failure" THEN Err("xrandr --query", 1)
    ELSE QueriedOutputs(parse_xrandr_output(answer.lines), active_only)

----------------------------------------------------------------------------
(* display/linux/xrandr.rs: apply_configuration                            *)

\* The decimal digits of a natural number: format!("{}", n).
RECURSIVE FormatNat(_)
FormatNat(n) ==
    LET d == CHOOSE c \in Digits : DigitValue(c) = n % 10
    IN  IF n < 10 THEN <<d>> ELSE FormatNat(n \div 10) \o <<d>>

\* format!("{}", n) of an i32.
FormatInt(n) == IF n < 0 THEN <<"-">> \o FormatNat(-n) ELSE FormatNat(n)

\* format!("{:.2}", x) of an f32 kept in hundredths.
FormatTwoDecimals(h) ==
    LET a == IF h < 0 THEN -h ELSE h
    IN  (IF h < 0 THEN <<"-">> ELSE <<>>)
          \o FormatNat(a \div 100) \o <<".">>
          \o FormatNat((a % 100) \div 10) \o FormatNat(a % 10)

\* format!("{}", x) of an f32 kept in hundredths: no trailing zeros and no
\* "." before an empty fraction.
FormatF32(h) ==
    LET a == IF h < 0 THEN -h ELSE h
        frac == IF a % 100 = 0 THEN <<>>
                ELSE IF a % 10 = 0 THEN <<".">> \o FormatNat((a % 100) \div 10)
                ELSE <<".">> \o FormatNat((a % 100) \div 10) \o FormatNat(a % 10)
    IN  (IF h < 0 THEN <<"-">> ELSE <<>>) \o FormatNat(a \div 100) \o frac

ArgOutput == <<"-", "-", "o", "u", "t", "p", "u", "t">>

ArgOff == <<"-", "-", "o", "f", "f">>

ArgMode == <<"-", "-", "m", "o", "d", "e">>

ArgRate == <<"-", "-", "r", "a", "t", "e">>

ArgPos == <<"-", "-", "p", "o", "s">>

ArgRotate == <<"-", "-", "r", "o", "t", "a", "t", "e">>

ArgPrimary == <<"-", "-", "p", "r", "i", "m", "a", "r", "y">>

ArgScale == <<"-", "-", "s", "c", "a", "l", "e">>

ArgQuery == <<"-", "-", "q", "u", "e", "r", "y">>

\* The arguments the first loop pushes for one current output.
TurnOffArgs(cur, profile_output_names) ==
    IF cur.enabled /\ cur.name \notin profile_output_names
    THEN <<ArgOutput, cur.name, ArgOff>>
    ELSE <<>>

\* The arguments of an enabled output without "--pos" and its value.
ConfigureArgs_no_position(output) ==
    <<ArgOutput, output.name>> \o
    (IF output.enabled
     THEN <<ArgMode, FormatNat(output.width) \o <<"x">> \o FormatNat(output.height),
            ArgRate, FormatTwoDecimals(output.refresh_rate),
            ArgRotate, to_xrandr_arg(output.rotation)>>
          \o (IF output.primary THEN <<ArgPrimary>> ELSE <<>>)
          \o (IF output.scale - 100 > 1 \/ 100 - output.scale > 1
              THEN <<ArgScale, FormatF32(output.scale) \o <<"x">> \o FormatF32(output.scale)>>
              ELSE <<>>)
     ELSE <<ArgOff>>)

\* The arguments the second loop pushes for one output of the list.
ConfigureArgs(output) ==
    <<ArgOutput, output.name>> \o
    (IF output.enabled
     THEN <<ArgMode, FormatNat(output.width) \o <<"x">> \o FormatNat(output.height),
            ArgRate, FormatTwoDecimals(output.refresh_rate),
            ArgPos, FormatInt(output.pos_x) \o <<"x">> \o FormatInt(output.pos_y),
            ArgRotate, to_xrandr_arg(output.rotation)>>
          \o (IF output.primary THEN <<ArgPrimary>> ELSE <<>>)
          \o (IF output.scale - 100 > 1 \/ 100 - output.scale > 1
              THEN <<ArgScale, FormatF32(output.scale) \o <<"x">> \o FormatF32(output.scale)>>
              ELSE <<>>)
     ELSE <<ArgOff>>)

\* The concatenation of a sequence of sequences.
RECURSIVE Concat(_)
Concat(seqs) == IF seqs = <<>> THEN <<>> ELSE Head(seqs) \o Concat(Tail(seqs))

\* The args vector apply_configuration builds: the outputs to turn off, in
\* the order of the query, then the outputs of the list, in their order.
ApplyArgs(requested, current_outputs) ==
    LET profile_output_names == {requested[i].name : i \in DOMAIN requested}
    IN  Concat([j \in DOMAIN current_outputs |->
                   TurnOffArgs(current_outputs[j], profile_output_names)])
          \o Concat([i \in DOMAIN requested |-> ConfigureArgs(requested[i])])

\* apply_configuration after its preliminary query returned queried: the
\* xrandr invocations made and what is returned; apply_status is how the
\* second invocation ends.
ApplyQueried(requested, queried, apply_status) ==
    LET args == ApplyArgs(requested, queried.value)
    IN  IF queried = Panicked
        THEN [calls |-> <<<<ArgQuery>>>>, result |-> [status |-> "panicked"]]
        ELSE IF ~queried.ok
        THEN [calls |-> <<<<ArgQuery>>>>,
              result |-> ResultErr(queried.call, queried.code)]
        ELSE [calls |-> <<<<ArgQuery>>, args>>,
              result |-> CASE apply_status = "spawn_failed" ->
                                 ResultErr("Command::output", 2)
                           [] apply_status = "exit_failure" ->
                                 ResultErr("xrandr", 1)
                           [] OTHER -> ResultOk]

\* apply_configuration: the preliminary query_outputs(false), then the rest.
apply_configuration(requested, answer, apply_status) ==
    ApplyQueried(requested, query_outputs(answer, FALSE), apply_status)

----------------------------------------------------------------------------
(* The display hardware the OS reports: a list of displays, each one path  *)
(* with its source mode and its target mode, and the monitor behind it.    *)

Adapters == {LUID(4660, 0), LUID(22136, 0)}

SourceIds == {0, 1}

TargetIds == {0, 1}

DeviceInfoFailed == [result |-> 31]

DeviceInfoNamed(man, prod, name, path) ==
    [ result |-> 0, edid_manufacture_id |-> man, edid_product_code_id |-> prod,
      monitor_friendly_device_name |-> name, monitor_device_path |-> path ]

\* What DisplayConfigGetDeviceInfo can answer for a target: a failure, a
\* monitor without a name, or one of two named monitors.
Monitors ==
    { DeviceInfoFailed,
      DeviceInfoNamed(1, 1, "", "path0"),
      DeviceInfoNamed(1138, 41184, "ACME U2720", "path1"),
      DeviceInfoNamed(4268, 16537, "DELL P2419H", "path2") }

Displays ==
    [ adapter_id : Adapters, source_id : SourceIds, target_id : TargetIds,
      monitor : Monitors ]

\* A target has one monitor: two displays on the same target agree on it.
ConsistentWorld(w) ==
    \A i, j \in DOMAIN w :
        (w[i].adapter_id = w[j].adapter_id /\ w[i].target_id = w[j].target_id)
            => w[i].monitor = w[j].monitor

Worlds ==
    {w \in UNION {[1..n -> Displays] : n \in 0..MaxDisplays} : ConsistentWorld(w)}

SourceModeOf(k) ==
    set_source_mode([ width |-> 1920, height |-> 1080, pixel_format |-> 4,
                      position |-> [x |-> (k - 2) * 1920, y |-> 0] ])

TargetModeOf(k) ==
    set_target_mode([ target_video_signal_info |->
        [ pixel_rate |-> [low |-> 148500000, high |-> 0],
          h_sync_freq |-> [numerator |-> 67500, denominator |-> 1],
          v_sync_freq |-> [numerator |-> 60000, denominator |-> 1000 + k],
          active_size |-> [cx |-> 1920, cy |-> 1080],
          total_size |-> [cx |-> 2200, cy |-> 1125],
          video_standard |-> 255, scan_line_ordering |-> 1 ] ])

\* The arrays QueryDisplayConfig fills for a world: path k with its source
\* mode at index 2(k-1) and its target mode at index 2(k-1)+1.
WorldPaths(w) ==
    [k \in DOMAIN w |->
        DisplayConfigPathInfo(w[k].adapter_id, w[k].source_id, 2 * (k - 1),
                              w[k].adapter_id, w[k].target_id, 2 * (k - 1) + 1,
                              k, 1)]

WorldModes(w) ==
    [i \in 1..(2 * Len(w)) |->
        LET k == (i + 1) \div 2
        IN  IF i % 2 = 1
            THEN DisplayConfigModeInfo(MODE_INFO_TYPE_SOURCE, w[k].source_id,
                                       w[k].adapter_id, SourceModeOf(k))
            ELSE DisplayConfigModeInfo(MODE_INFO_TYPE_TARGET, w[k].target_id,
                                       w[k].adapter_id, TargetModeOf(k))]

WorldDevices(w) ==
    [k \in DOMAIN w |->
        [adapter_id |-> w[k].adapter_id, id |-> w[k].target_id,
         answer |-> w[k].monitor]]

WorldQueryAnswer(w) ==
    OsQueryAnswer(0, Len(w), 2 * Len(w), 0, WorldPaths(w), WorldModes(w))

\* The OS refusing the capture in either of its two calls.
FailedQueryAnswers ==
    { OsQueryAnswer(5, 0, 0, 0, <<>>, <<>>),
      OsQueryAnswer(0, 1, 2, 87, <<>>, <<>>) }

----------------------------------------------------------------------------
(* Resolving a stored profile: match_adapter_ids on settings that an       *)
(* earlier capture stored, against the hardware of now.                    *)

\* What a capture followed by the probing of its target modes gives in a
\* world (save_profile and match_adapter_ids both start with this pair).
CaptureOf(w) ==
    LET cap == get_display_settings(WorldQueryAnswer(w))
    IN  [ settings |-> cap.value,
          infos |-> get_additional_info_for_modes(WorldDevices(w),
                                                  cap.value.mode_info_array),
          devices |-> WorldDevices(w) ]

Captures == {CaptureOf(w) : w \in Worlds}

OneDisplayCaptures == {CaptureOf(w) : w \in {v \in Worlds : Len(v) = 1}}

\* The identities of a capture's target modes alone, in mode order.
TargetInfosOnly(c) ==
    LET kept == SelectSeq([i \in DOMAIN c.infos |-> i],
                          LAMBDA i : c.settings.mode_info_array[i].info_type
                                        = MODE_INFO_TYPE_TARGET)
    IN  [k \in DOMAIN kept |-> c.infos[kept[k]]]

\* Profiles written by an earlier session: what a capture stored, and
\* one-display profiles of another tool whose AdditionalInfo list is shorter
\* than the mode list, holds an entry per target mode only, or marks its
\* identities invalid while naming them.
StoredProfiles ==
    { [settings |-> c.settings, infos |-> c.infos] : c \in Captures }
    \cup { [settings |-> c.settings, infos |-> SubSeq(c.infos, 1, n)] :
             c \in OneDisplayCaptures, n \in 0..1 }
    \cup { [settings |-> c.settings, infos |-> TargetInfosOnly(c)] :
             c \in OneDisplayCaptures }
    \cup { [settings |-> c.settings,
            infos |-> [i \in DOMAIN c.infos |-> [c.infos[i] EXCEPT !.valid = FALSE]]] :
             c \in OneDisplayCaptures }

InitResolve ==
    \E stored \in StoredProfiles :
        /\ pc = "match_adapter_ids"
        /\ settings = stored.settings
        /\ additional_info = stored.infos
        /\ input_settings = stored.settings
        /\ current = DisplaySettingsDefault
        /\ current_additional_info = <<>>
        /\ tiers_run = <<>>
        /\ matched_tier = 0
        /\ attempts = <<>>
        /\ os_query = NoQuery
        /\ os_devices = <<>>
        /\ tasks = <<>>
        /\ steps = <<>>
        /\ resolved_again = None
        /\ xrandr_stdout = NoXrandrAnswer
        /\ outputs = <<>>
        /\ xrandr_calls = <<>>
        /\ geom = <<>>
        /\ geometry = None
        /\ files = <<>>
        /\ store_reply = ResultNone
        /\ saved = <<>>
        /\ result = ResultNone
        /\ dpi_request = DisplayConfigSourceDpiScaleGetDefault
        /\ dpi_info = None
        /\ os_dpi = <<>>
        /\ profile = DisplayProfileDefault
        /\ decoded = NothingDecoded

\* match_adapter_ids with a capture that succeeds.
MatchAdapterIds ==
    /\ pc = "match_adapter_ids"
    /\ \E live \in Captures :
          LET r == match_adapter_ids(settings, additional_info,
                                     live.settings, live.infos)
          IN  /\ current' = live.settings
              /\ current_additional_info' = live.infos
              /\ os_devices' = live.devices
              /\ settings' = r.settings
              /\ tiers_run' = r.tiers_run
              /\ matched_tier' = r.matched_tier
              /\ result' = ResultOk
    /\ pc' = "done"
    /\ UNCHANGED <<additional_info, input_settings, attempts, os_query, codecVars,
                   appVars,
                   otherVars>>

\* match_adapter_ids with a capture that fails: the "?" returns its error
\* before any tier is entered.
MatchAdapterIdsQueryFailed ==
    /\ pc = "match_adapter_ids"
    /\ \E os \in FailedQueryAnswers :
          LET cap == get_display_settings(os)
          IN  /\ ~cap.ok
              /\ result' = ResultErr(cap.call, cap.code)
    /\ pc' = "done"
    /\ UNCHANGED <<settings, additional_info, input_settings, resolverVars,
                   attempts, os_query, codecVars, os_devices, appVars,
                   otherVars>>

NextResolve == MatchAdapterIds \/ MatchAdapterIdsQueryFailed

SpecResolve == InitResolve /\ [][NextResolve]_vars

----------------------------------------------------------------------------
(* The resolver run a second time: match_adapter_ids on the settings the   *)
(* first run left, with the same stored identities, while the hardware, and *)
(* so the capture, is the same.                                            *)

MatchAdapterIdsAgain ==
    /\ pc = "done"
    /\ result = ResultOk
    /\ resolved_again' = Some(match_adapter_ids(settings, additional_info,
                                                current, current_additional_info))
    /\ pc' = "done_again"
    /\ UNCHANGED <<settings, additional_info, input_settings, resolverVars,
                   attempts, os_query, os_devices, result, codecVars, appVars,
                   linuxVars, storeVars>>

NextResolveAgain == MatchAdapterIds \/ MatchAdapterIdsQueryFailed \/ MatchAdapterIdsAgain

SpecResolveAgain == InitResolve /\ [][NextResolveAgain]_vars

----------------------------------------------------------------------------
(* ccd/api.rs: set_display_settings                                        *)

SetDisplayConfigFlags ==
    {"SDC_APPLY", "SDC_USE_SUPPLIED_DISPLAY_CONFIG", "SDC_SAVE_TO_DATABASE",
     "SDC_NO_OPTIMIZATION"}

SetDisplayConfigFlagsWithChanges == SetDisplayConfigFlags \cup {"SDC_ALLOW_CHANGES"}

\* Status codes SetDisplayConfig can answer: 0 is success.
SetDisplayConfigCodes == {0, 5, 31, 87, 1610}

\* One call of SetDisplayConfig as the OS saw it.
SetDisplayConfigCall(s, flags, code) ==
    [ num_paths |-> Len(s.path_info_array), num_modes |-> Len(s.mode_info_array),
      flags |-> flags, result |-> code ]

InitCommit ==
    \E c \in OneDisplayCaptures \cup {CaptureOf(<<>>)} :
        /\ pc = "set_display_settings"
        /\ settings = c.settings
        /\ additional_info = c.infos
        /\ input_settings = c.settings
        /\ current = DisplaySettingsDefault
        /\ current_additional_info = <<>>
        /\ tiers_run = <<>>
        /\ matched_tier = 0
        /\ attempts = <<>>
        /\ os_query = NoQuery
        /\ os_devices = <<>>
        /\ tasks = <<>>
        /\ steps = <<>>
        /\ resolved_again = None
        /\ xrandr_stdout = NoXrandrAnswer
        /\ outputs = <<>>
        /\ xrandr_calls = <<>>
        /\ geom = <<>>
        /\ geometry = None
        /\ files = <<>>
        /\ store_reply = ResultNone
        /\ saved = <<>>
        /\ result = ResultNone
        /\ dpi_request = DisplayConfigSourceDpiScaleGetDefault
        /\ dpi_info = None
        /\ os_dpi = <<>>
        /\ profile = DisplayProfileDefault
        /\ decoded = NothingDecoded

\* First attempt, without SDC_ALLOW_CHANGES; status 0 returns Ok(()).
SetDisplaySettingsFirstAttempt ==
    /\ pc = "set_display_settings"
    /\ \E code \in SetDisplayConfigCodes :
          /\ attempts' = Append(attempts,
                 SetDisplayConfigCall(settings, SetDisplayConfigFlags, code))
          /\ IF code = 0
             THEN result' = ResultOk /\ pc' = "done"
             ELSE result' = result /\ pc' = "set_display_settings_retry"
    /\ UNCHANGED <<settings, additional_info, input_settings, resolverVars,
                   os_query, codecVars, os_devices, appVars,
                   otherVars>>

\* The second attempt reporting the status of the first call on failure.
SetDisplaySettingsSecondAttempt_first_status ==
    /\ pc = "set_display_settings_retry"
    /\ \E code \in SetDisplayConfigCodes :
          /\ attempts' = Append(attempts,
                 SetDisplayConfigCall(settings, SetDisplayConfigFlagsWithChanges, code))
          /\ result' = IF code = 0 THEN ResultOk
                       ELSE ResultErr("SetDisplayConfig", attempts[1].result)
    /\ pc' = "done"
    /\ UNCHANGED <<settings, additional_info, input_settings, resolverVars,
                   os_query, codecVars, os_devices, appVars,
                   otherVars>>

\* Second attempt, with SDC_ALLOW_CHANGES; its status decides the Result.
SetDisplaySettingsSecondAttempt ==
    /\ pc = "set_display_settings_retry"
    /\ \E code \in SetDisplayConfigCodes :
          /\ attempts' = Append(attempts,
                 SetDisplayConfigCall(settings, SetDisplayConfigFlagsWithChanges, code))
          /\ result' = IF code = 0 THEN ResultOk
                       ELSE ResultErr("SetDisplayConfig", code)
    /\ pc' = "done"
    /\ UNCHANGED <<settings, additional_info, input_settings, resolverVars,
                   os_query, codecVars, os_devices, appVars,
                   otherVars>>

NextCommit == SetDisplaySettingsFirstAttempt \/ SetDisplaySettingsSecondAttempt

SpecCommit == InitCommit /\ [][NextCommit]_vars

----------------------------------------------------------------------------
(* A capture on what the OS may answer, stale and placeholder entries      *)
(* included: get_display_settings alone.                                   *)

MaxRawPaths == 2

MaxRawModes == 3

\* Paths QueryDisplayConfig may report: the target available or not, the two
\* mode indices anywhere in the mode buffer.
RawPaths ==
    { DisplayConfigPathInfo(LUID(4660, 0), 0, sidx, LUID(4660, 0), 0, tidx, 1, avail) :
        sidx \in 0..(MaxRawModes - 1), tidx \in 0..(MaxRawModes - 1),
        avail \in {0, 1} }

\* Modes QueryDisplayConfig may report at buffer position i: unset (tag 0),
\* source or target.
RawModeAt(type, i) ==
    DisplayConfigModeInfo(type, i,
        IF type = 0 THEN LuidDefault ELSE LUID(4660, 0),
        IF type = MODE_INFO_TYPE_SOURCE THEN SourceModeOf(i)
        ELSE IF type = MODE_INFO_TYPE_TARGET THEN TargetModeOf(i)
        ELSE ZeroModeData)

RawModeArrays ==
    UNION { {[i \in 1..n |-> RawModeAt(types[i], i)] :
               types \in [1..n -> {0, MODE_INFO_TYPE_SOURCE, MODE_INFO_TYPE_TARGET}]} :
            n \in 0..MaxRawModes }

RawPathArrays == UNION {[1..n -> RawPaths] : n \in 0..MaxRawPaths}

\* The answers of the OS to a capture: either call may fail, the buffers may
\* be larger than what the query then fills.
RawQueryAnswers ==
    { OsQueryAnswer(0, Len(paths) + slack, Len(modes) + slack, 0, paths, modes) :
        slack \in {0, 1}, paths \in RawPathArrays, modes \in RawModeArrays }
    \cup FailedQueryAnswers

InitCapture ==
    /\ pc = "get_display_settings"
    /\ settings = DisplaySettingsDefault
    /\ additional_info = <<>>
    /\ input_settings = DisplaySettingsDefault
    /\ current = DisplaySettingsDefault
    /\ current_additional_info = <<>>
    /\ tiers_run = <<>>
    /\ matched_tier = 0
    /\ attempts = <<>>
    /\ os_query = NoQuery
    /\ os_devices = <<>>
    /\ tasks = <<>>
    /\ steps = <<>>
    /\ resolved_again = None
    /\ xrandr_stdout = NoXrandrAnswer
    /\ outputs = <<>>
    /\ xrandr_calls = <<>>
    /\ geom = <<>>
    /\ geometry = None
    /\ files = <<>>
    /\ store_reply = ResultNone
    /\ saved = <<>>
    /\ result = ResultNone
    /\ dpi_request = DisplayConfigSourceDpiScaleGetDefault
    /\ dpi_info = None
    /\ os_dpi = <<>>
    /\ profile = DisplayProfileDefault
    /\ decoded = NothingDecoded

GetDisplaySettings ==
    /\ pc = "get_display_settings"
    /\ \E os \in RawQueryAnswers :
          LET cap == get_display_settings(os)
          IN  /\ os_query' = os
              /\ IF cap.ok
                 THEN current' = cap.value /\ result' = ResultOk
                 ELSE current' = current /\ result' = ResultErr(cap.call, cap.code)
    /\ pc' = "done"
    /\ UNCHANGED <<settings, additional_info, input_settings,
                   current_additional_info, tiers_run, matched_tier, attempts,
                   codecVars, os_devices, appVars,
                   otherVars>>

NextCapture == GetDisplaySettings

SpecCapture == InitCapture /\ [][NextCapture]_vars

----------------------------------------------------------------------------
(* Decoding a DPI answer: to_dpi_info on what the OS filled in.            *)

DpiRelRange == 13

\* Relative scale values: everything around the table's length, and the
\* ends of the i32 range.
RelSamples ==
    (-DpiRelRange..DpiRelRange) \cup {I32Min, I32Min + 1, I32Max - 1, I32Max}

InitDpi ==
    /\ pc = "to_dpi_info"
    /\ settings = DisplaySettingsDefault
    /\ additional_info = <<>>
    /\ input_settings = DisplaySettingsDefault
    /\ current = DisplaySettingsDefault
    /\ current_additional_info = <<>>
    /\ tiers_run = <<>>
    /\ matched_tier = 0
    /\ attempts = <<>>
    /\ os_query = NoQuery
    /\ os_devices = <<>>
    /\ tasks = <<>>
    /\ steps = <<>>
    /\ resolved_again = None
    /\ xrandr_stdout = NoXrandrAnswer
    /\ outputs = <<>>
    /\ xrandr_calls = <<>>
    /\ geom = <<>>
    /\ geometry = None
    /\ files = <<>>
    /\ store_reply = ResultNone
    /\ saved = <<>>
    /\ result = ResultNone
    /\ dpi_request \in
          [ min_scale_rel : RelSamples, cur_scale_rel : RelSamples,
            max_scale_rel : RelSamples ]
    /\ dpi_info = None
    /\ os_dpi = <<>>
    /\ profile = DisplayProfileDefault
    /\ decoded = NothingDecoded

ToDpiInfo ==
    /\ pc = "to_dpi_info"
    /\ dpi_info' = to_dpi_info(dpi_request)
    /\ pc' = "done"
    /\ UNCHANGED <<settings, additional_info, input_settings, resolverVars,
                   attempts, os_query, result, dpi_request, os_dpi, profile,
                   decoded, os_devices, appVars,
                   otherVars>>

NextDpi == ToDpiInfo

SpecDpi == InitDpi /\ [][NextDpi]_vars

----------------------------------------------------------------------------
(* Saving and loading: settings_to_profile on a capture, with the DPI the  *)
(* OS reports at that moment, then profile_to_settings on the profile.     *)

\* What the OS can answer to a DPI request: a failure, recommended 175 with
\* current 150, recommended and current 100, and an answer whose current
\* value lies above its maximum.
DpiAnswers ==
    { DpiAnswer(31, 0, 0, 0),
      DpiAnswer(0, -3, -1, 2),
      DpiAnswer(0, 0, 0, 4),
      DpiAnswer(0, -2, 3, 1) }

\* The sources of a topology, as the OS addresses them.
SourceKeys(s) ==
    { <<s.path_info_array[k].source_info.adapter_id, s.path_info_array[k].source_info.id>> :
        k \in DOMAIN s.path_info_array }

InitCodec ==
    \E c \in Captures :
        \E dpi \in [SourceKeys(c.settings) -> DpiAnswers] :
            /\ pc = "settings_to_profile"
            /\ settings = c.settings
            /\ additional_info = c.infos
            /\ input_settings = c.settings
            /\ current = DisplaySettingsDefault
            /\ current_additional_info = <<>>
            /\ tiers_run = <<>>
            /\ matched_tier = 0
            /\ attempts = <<>>
            /\ os_query = NoQuery
            /\ os_devices = <<>>
            /\ tasks = <<>>
            /\ steps = <<>>
            /\ resolved_again = None
            /\ xrandr_stdout = NoXrandrAnswer
            /\ outputs = <<>>
            /\ xrandr_calls = <<>>
            /\ geom = <<>>
            /\ geometry = None
            /\ files = <<>>
            /\ store_reply = ResultNone
            /\ saved = <<>>
            /\ result = ResultNone
            /\ dpi_request = DisplayConfigSourceDpiScaleGetDefault
            /\ dpi_info = None
            /\ os_dpi = dpi
            /\ profile = DisplayProfileDefault
            /\ decoded = NothingDecoded

SettingsToProfile ==
    /\ pc = "settings_to_profile"
    /\ profile' = settings_to_profile(settings, additional_info, os_dpi)
    /\ pc' = "profile_to_settings"
    /\ UNCHANGED <<settings, additional_info, input_settings, resolverVars,
                   attempts, os_query, result, dpi_request, dpi_info, os_dpi,
                   decoded, os_devices, appVars,
                   otherVars>>

ProfileToSettings ==
    /\ pc = "profile_to_settings"
    /\ decoded' = profile_to_settings(profile)
    /\ pc' = "done"
    /\ UNCHANGED <<settings, additional_info, input_settings, resolverVars,
                   attempts, os_query, result, dpi_request, dpi_info, os_dpi,
                   profile, os_devices, appVars,
                   otherVars>>

NextCodec == SettingsToProfile \/ ProfileToSettings

SpecCodec == InitCodec /\ [][NextCodec]_vars

----------------------------------------------------------------------------
(* lib.rs: load_profile.  storage_load, profile_to_settings,               *)
(* match_adapter_ids and set_display_settings, each Err leaving through    *)
(* its "?".                                                                *)

\* Profile files on disk: what save_profile wrote for a one-display capture
\* (with no DPI reported).
ProfilesOnDisk ==
    { settings_to_profile(c.settings, c.infos, <<>>) : c \in OneDisplayCaptures }

\* The hardware at the time of the load: one display, or none.
LoadCaptures == OneDisplayCaptures \cup {CaptureOf(<<>>)}

\* storage_load fails when the file cannot be read or cannot be parsed.
StorageLoadErrors ==
    { ResultErr("fs::read_to_string", 2), ResultErr("serde_json::from_str", 1) }

\* One call made by load_profile and whether it returned without an Err.
Step(call, ok) == [call |-> call, ok |-> ok]

InitLoad ==
    \E stored \in ProfilesOnDisk :
        /\ pc = "storage_load"
        /\ settings = DisplaySettingsDefault
        /\ additional_info = <<>>
        /\ input_settings = DisplaySettingsDefault
        /\ current = DisplaySettingsDefault
        /\ current_additional_info = <<>>
        /\ tiers_run = <<>>
        /\ matched_tier = 0
        /\ attempts = <<>>
        /\ os_query = NoQuery
        /\ os_devices = <<>>
        /\ tasks = <<>>
        /\ steps = <<>>
        /\ resolved_again = None
        /\ xrandr_stdout = NoXrandrAnswer
        /\ outputs = <<>>
        /\ xrandr_calls = <<>>
        /\ geom = <<>>
        /\ geometry = None
        /\ files = <<>>
        /\ store_reply = ResultNone
        /\ saved = <<>>
        /\ result = ResultNone
        /\ dpi_request = DisplayConfigSourceDpiScaleGetDefault
        /\ dpi_info = None
        /\ os_dpi = <<>>
        /\ profile = stored
        /\ decoded = NothingDecoded

\* storage_load(&name)?: the profile read, or the error returned.
LoadStorageLoad ==
    /\ pc = "storage_load"
    /\ \/ /\ steps' = Append(steps, Step("storage_load", TRUE))
          /\ pc' = "profile_to_settings"
          /\ result' = result
       \/ \E err \in StorageLoadErrors :
             /\ steps' = Append(steps, Step("storage_load", FALSE))
             /\ pc' = "done"
             /\ result' = err
    /\ UNCHANGED <<settings, additional_info, input_settings, resolverVars,
                   attempts, os_query, os_devices, codecVars, tasks,
                   otherVars>>

\* let (mut settings, additional_info) = profile_to_settings(&profile);
LoadProfileToSettings ==
    /\ pc = "profile_to_settings"
    /\ decoded' = profile_to_settings(profile)
    /\ settings' = decoded'.settings
    /\ additional_info' = decoded'.additional_info
    /\ input_settings' = decoded'.settings
    /\ steps' = Append(steps, Step("profile_to_settings", TRUE))
    /\ pc' = "match_adapter_ids"
    /\ UNCHANGED <<resolverVars, attempts, os_query, os_devices, result,
                   dpi_request, dpi_info, os_dpi, profile, tasks,
                   otherVars>>

\* match_adapter_ids(&mut settings, &additional_info)? with a capture that
\* succeeds: Ok(()) whatever the tiers found.
LoadMatchAdapterIds ==
    /\ pc = "match_adapter_ids"
    /\ \E live \in LoadCaptures :
          LET r == match_adapter_ids(settings, additional_info,
                                     live.settings, live.infos)
          IN  /\ current' = live.settings
              /\ current_additional_info' = live.infos
              /\ os_devices' = live.devices
              /\ settings' = r.settings
              /\ tiers_run' = r.tiers_run
              /\ matched_tier' = r.matched_tier
    /\ steps' = Append(steps, Step("match_adapter_ids", TRUE))
    /\ pc' = "set_display_settings"
    /\ UNCHANGED <<additional_info, input_settings, attempts, os_query, result,
                   codecVars, tasks,
                   otherVars>>

\* The resolver's error dropped instead of returned: load_profile goes on to
\* the commit after a failed capture.
LoadMatchAdapterIdsQueryFailed_error_dropped ==
    /\ pc = "match_adapter_ids"
    /\ \E os \in FailedQueryAnswers :
          LET cap == get_display_settings(os)
          IN  /\ ~cap.ok
              /\ os_query' = os
    /\ steps' = Append(steps, Step("match_adapter_ids", FALSE))
    /\ pc' = "set_display_settings"
    /\ UNCHANGED <<settings, additional_info, input_settings, resolverVars,
                   attempts, os_devices, result, codecVars, tasks,
                   otherVars>>

\* match_adapter_ids(&mut settings, &additional_info)? with a capture that
\* fails: the error is returned by load_profile.
LoadMatchAdapterIdsQueryFailed ==
    /\ pc = "match_adapter_ids"
    /\ \E os \in FailedQueryAnswers :
          LET cap == get_display_settings(os)
          IN  /\ ~cap.ok
              /\ os_query' = os
              /\ result' = ResultErr(cap.call, cap.code)
    /\ steps' = Append(steps, Step("match_adapter_ids", FALSE))
    /\ pc' = "done"
    /\ UNCHANGED <<settings, additional_info, input_settings, resolverVars,
                   attempts, os_devices, codecVars, tasks,
                   otherVars>>

\* set_display_settings(&mut settings)? is the two attempts of the commit.
NextLoad ==
    \/ LoadStorageLoad
    \/ LoadProfileToSettings
    \/ LoadMatchAdapterIds
    \/ LoadMatchAdapterIdsQueryFailed
    \/ SetDisplaySettingsFirstAttempt
    \/ SetDisplaySettingsSecondAttempt

SpecLoad == InitLoad /\ [][NextLoad]_vars

----------------------------------------------------------------------------
(* lib.rs: the tray menu.  on_menu_event spawns the command of the menu    *)
(* item on the async runtime and returns; the runtime's worker threads     *)
(* then run the spawned futures.  The commands hold no .await before their *)
(* end, so a future runs on the thread that polled it until it returns.    *)

MaxTasks == 3

\* Worker threads of the async runtime.
WorkerThreads == 2

\* The calls of each command, in the order of its body.
CommandCalls(command) ==
    CASE command = "load_profile" ->
            <<"storage_load", "profile_to_settings", "match_adapter_ids",
              "set_display_settings">>
      [] command = "save_profile" ->
            <<"get_display_settings", "get_additional_info_for_modes",
              "settings_to_profile", "storage_save", "refresh_tray_menu">>
      [] command = "delete_profile" ->
            <<"storage_delete", "refresh_tray_menu">>
      [] OTHER -> <<"ccd_turn_off">>

\* The calls a command leaves with "?" when they return Err.
FallibleCalls ==
    {"storage_load", "match_adapter_ids", "set_display_settings",
     "get_display_settings", "storage_save", "storage_delete", "ccd_turn_off"}

\* Menu ids that spawn a command: load_<name>, save_<name> (not save_new),
\* delete_<name> and turn_off.
SpawnedCommands ==
    {"load_profile", "save_profile", "delete_profile", "turn_off_monitors"}

\* A spawned future: its command and the number of calls it has completed
\* (at 0 .. Len(calls)); polled says a worker thread has taken it up.
Task(command, polled, at, finished) ==
    [command |-> command, polled |-> polled, at |-> at, finished |-> finished]

Running(t) == t.polled /\ ~t.finished

displayVars ==
    <<pc, settings, additional_info, input_settings, resolverVars, attempts,
      os_query, os_devices, result, codecVars>>

InitTray ==
    /\ pc = "tray"
    /\ settings = DisplaySettingsDefault
    /\ additional_info = <<>>
    /\ input_settings = DisplaySettingsDefault
    /\ current = DisplaySettingsDefault
    /\ current_additional_info = <<>>
    /\ tiers_run = <<>>
    /\ matched_tier = 0
    /\ attempts = <<>>
    /\ os_query = NoQuery
    /\ os_devices = <<>>
    /\ tasks = <<>>
    /\ steps = <<>>
    /\ resolved_again = None
    /\ xrandr_stdout = NoXrandrAnswer
    /\ outputs = <<>>
    /\ xrandr_calls = <<>>
    /\ geom = <<>>
    /\ geometry = None
    /\ files = <<>>
    /\ store_reply = ResultNone
    /\ saved = <<>>
    /\ result = ResultNone
    /\ dpi_request = DisplayConfigSourceDpiScaleGetDefault
    /\ dpi_info = None
    /\ os_dpi = <<>>
    /\ profile = DisplayProfileDefault
    /\ decoded = NothingDecoded

\* on_menu_event for an id that spawns: tauri::async_runtime::spawn, then
\* the handler returns.  Nothing is awaited and no lock is taken.
OnMenuEvent ==
    /\ Len(tasks) < MaxTasks
    /\ \E command \in SpawnedCommands :
          tasks' = Append(tasks, Task(command, FALSE, 0, FALSE))
    /\ UNCHANGED <<displayVars, steps,
                   otherVars>>

\* A free worker thread takes up a spawned future.
PollTask ==
    /\ \E k \in DOMAIN tasks :
          /\ ~tasks[k].polled
          /\ Cardinality({j \in DOMAIN tasks : Running(tasks[j])}) < WorkerThreads
          /\ tasks' = [tasks EXCEPT ![k].polled = TRUE]
    /\ UNCHANGED <<displayVars, steps,
                   otherVars>>

\* The thread running a future makes the command's next call; an Err of a
\* call followed by "?" ends the command, and so does its last call.
TaskCall ==
    /\ \E k \in DOMAIN tasks :
          LET t == tasks[k]
              calls == CommandCalls(t.command)
              call == calls[t.at + 1]
          IN  /\ Running(t)
              /\ \E ok \in IF call \in FallibleCalls THEN BOOLEAN ELSE {TRUE} :
                    tasks' = [tasks EXCEPT
                                ![k].at = t.at + 1,
                                ![k].finished = (~ok \/ t.at + 1 = Len(calls))]
    /\ UNCHANGED <<displayVars, steps,
                   otherVars>>

NextTray == OnMenuEvent \/ PollTask \/ TaskCall

SpecTray == InitTray /\ [][NextTray]_vars

----------------------------------------------------------------------------
(* Decoding a profile file: profile_to_settings on whatever the JSON of    *)
(* the file parsed to.  target_mode and source_mode are both optional      *)
(* fields of a persisted mode, so a file can hold either, both or none     *)
(* under any info_type.                                                    *)

\* How the first mode of a file differs from what the encoder wrote: not at
\* all, the other kind's tag, the other kind's payload added, the other
\* kind's payload instead of its own, or no payload.
PayloadEdits ==
    {"as_written", "tag_swapped", "both_payloads", "other_payload", "no_payload"}

OtherModeType(type) ==
    IF type = MODE_INFO_TYPE_TARGET THEN MODE_INFO_TYPE_SOURCE
    ELSE MODE_INFO_TYPE_TARGET

\* The persisted mode m with the edit applied; donor is a persisted mode of
\* the other kind, from which the other payload is taken.
EditedMode(m, donor, edit) ==
    CASE edit = "tag_swapped" ->
            [m EXCEPT !.info_type = OtherModeType(m.info_type)]
      [] edit = "both_payloads" ->
            [m EXCEPT !.target_mode = IF @.some THEN @ ELSE donor.target_mode,
                      !.source_mode = IF @.some THEN @ ELSE donor.source_mode]
      [] edit = "other_payload" ->
            [m EXCEPT !.target_mode = donor.target_mode,
                      !.source_mode = donor.source_mode]
      [] edit = "no_payload" ->
            [m EXCEPT !.target_mode = None, !.source_mode = None]
      [] OTHER -> m

\* Profile p with the edit applied to its mode at position i; the donor is
\* the first mode of the other kind.
EditedProfile(p, i, edit) ==
    LET modes == p.mode_info_array
        donors == {j \in DOMAIN modes : modes[j].info_type # modes[i].info_type}
    IN  IF donors = {} THEN p
        ELSE [p EXCEPT !.mode_info_array[i] =
                          EditedMode(modes[i], modes[Min(donors)], edit)]

\* Profile files a load can meet: those save_profile wrote for a one-display
\* capture, and the same files with one mode edited.
PersistedProfiles ==
    UNION { { EditedProfile(settings_to_profile(c.settings, c.infos, <<>>), i, edit) :
                i \in DOMAIN c.settings.mode_info_array, edit \in PayloadEdits } :
            c \in OneDisplayCaptures }

InitDecode ==
    \E stored \in PersistedProfiles :
        /\ pc = "profile_to_settings"
        /\ settings = DisplaySettingsDefault
        /\ additional_info = <<>>
        /\ input_settings = DisplaySettingsDefault
        /\ current = DisplaySettingsDefault
        /\ current_additional_info = <<>>
        /\ tiers_run = <<>>
        /\ matched_tier = 0
        /\ attempts = <<>>
        /\ os_query = NoQuery
        /\ os_devices = <<>>
        /\ tasks = <<>>
        /\ steps = <<>>
        /\ resolved_again = None
        /\ xrandr_stdout = NoXrandrAnswer
        /\ outputs = <<>>
        /\ xrandr_calls = <<>>
        /\ geom = <<>>
        /\ geometry = None
        /\ files = <<>>
        /\ store_reply = ResultNone
        /\ saved = <<>>
        /\ result = ResultNone
        /\ dpi_request = DisplayConfigSourceDpiScaleGetDefault
        /\ dpi_info = None
        /\ os_dpi = <<>>
        /\ profile = stored
        /\ decoded = NothingDecoded

NextDecode == ProfileToSettings

SpecDecode == InitDecode /\ [][NextDecode]_vars

----------------------------------------------------------------------------
(* parse_geometry and parse_position applied to a text: every text of at   *)
(* most MaxGeomLen characters over digits, "x", the two signs and a        *)
(* character outside ASCII.                                                *)

MaxGeomLen == 7

GeomChars == {"0", "5", "x", "+", "-", "U+00E9"}

InitGeometry ==
    \E n \in 0..MaxGeomLen : \E text \in [1..n -> GeomChars] :
        /\ pc = "parse"
        /\ settings = DisplaySettingsDefault
        /\ additional_info = <<>>
        /\ input_settings = DisplaySettingsDefault
        /\ current = DisplaySettingsDefault
        /\ current_additional_info = <<>>
        /\ tiers_run = <<>>
        /\ matched_tier = 0
        /\ attempts = <<>>
        /\ os_query = NoQuery
        /\ os_devices = <<>>
        /\ tasks = <<>>
        /\ steps = <<>>
        /\ resolved_again = None
        /\ xrandr_stdout = NoXrandrAnswer
        /\ outputs = <<>>
        /\ xrandr_calls = <<>>
        /\ geom = text
        /\ geometry = None
        /\ files = <<>>
        /\ store_reply = ResultNone
        /\ saved = <<>>
        /\ result = ResultNone
        /\ dpi_request = DisplayConfigSourceDpiScaleGetDefault
        /\ dpi_info = None
        /\ os_dpi = <<>>
        /\ profile = DisplayProfileDefault
        /\ decoded = NothingDecoded

ParseGeometry ==
    /\ pc = "parse"
    /\ geometry' = parse_geometry(geom)
    /\ pc' = "parse_geometry"
    /\ UNCHANGED <<settings, additional_info, input_settings, resolverVars,
                   attempts, os_query, os_devices, result, codecVars, appVars,
                   resolved_again, xrandr_stdout, outputs, xrandr_calls, geom,
                   storeVars>>

ParsePosition ==
    /\ pc = "parse"
    /\ geometry' = parse_position(geom)
    /\ pc' = "parse_position"
    /\ UNCHANGED <<settings, additional_info, input_settings, resolverVars,
                   attempts, os_query, os_devices, result, codecVars, appVars,
                   resolved_again, xrandr_stdout, outputs, xrandr_calls, geom,
                   storeVars>>

NextGeometry == ParseGeometry \/ ParsePosition

SpecGeometry == InitGeometry /\ [][NextGeometry]_vars

----------------------------------------------------------------------------
(* query_outputs on what "xrandr --query" prints: every sequence of at     *)
(* most MaxXrandrLines lines out of a few lines xrandr prints.             *)

MaxXrandrLines == 4

\* "Screen 0: ..."; a connected primary output with its geometry; an output
\* reported disconnected, without and with a geometry (xrandr keeps the
\* geometry of an output that was unplugged while in use); a connected output
\* that is off; a connected rotated output; the line of the active mode; the
\* line of another mode.
XrandrLines ==
    { Line(0, <<<<"S", "c", "r", "e", "e", "n">>,
            <<"0", ":">>>>),
      Line(0, <<<<"H", "D", "M", "I", "-", "1">>,
            <<"c", "o", "n", "n", "e", "c", "t", "e", "d">>,
            <<"p", "r", "i", "m", "a", "r", "y">>,
            <<"1", "9", "2", "0", "x", "1", "0", "8", "0", "+", "0", "+", "0">>,
            <<"(", "n", "o", "r", "m", "a", "l">>>>),
      Line(0, <<<<"D", "P", "-", "1">>,
            <<"d", "i", "s", "c", "o", "n", "n", "e", "c", "t", "e", "d">>,
            <<"(", "n", "o", "r", "m", "a", "l">>>>),
      Line(0, <<<<"D", "P", "-", "1">>,
            <<"d", "i", "s", "c", "o", "n", "n", "e", "c", "t", "e", "d">>,
            <<"1", "9", "2", "0", "x", "1", "0", "8", "0", "+", "1", "9", "2", "0", "+", "0">>,
            <<"(", "n", "o", "r", "m", "a", "l">>>>),
      Line(0, <<<<"D", "P", "-", "2">>,
            <<"c", "o", "n", "n", "e", "c", "t", "e", "d">>,
            <<"(", "n", "o", "r", "m", "a", "l">>>>),
      Line(0, <<<<"D", "P", "-", "2">>,
            <<"c", "o", "n", "n", "e", "c", "t", "e", "d">>,
            <<"1", "4", "4", "0", "x", "2", "5", "6", "0", "+", "1", "9", "2", "0", "+", "0">>,
            <<"l", "e", "f", "t">>,
            <<"(", "n", "o", "r", "m", "a", "l">>>>),
      Line(3, <<<<"1", "9", "2", "0", "x", "1", "0", "8", "0">>,
            <<"6", "0", ".", "0", "0", "*", "+">>,
            <<"5", "0", ".", "0", "0">>>>),
      Line(3, <<<<"1", "2", "8", "0", "x", "7", "2", "0">>,
            <<"6", "0", ".", "0", "0">>,
            <<"5", "9", ".", "9", "4">>>>) }

\* What the command can give: it could not be started, it exited with a
\* failure, or it printed the lines.
XrandrAnswersOf(ls) ==
    {XrandrAnswer("spawn_failed", <<>>), XrandrAnswer("exit_failure", <<>>),
     XrandrAnswer("success", ls)}

InitQuery ==
    \E n \in 0..MaxXrandrLines : \E ls \in [1..n -> XrandrLines] :
    \E answer \in XrandrAnswersOf(ls) :
        /\ pc = "query_outputs"
        /\ settings = DisplaySettingsDefault
        /\ additional_info = <<>>
        /\ input_settings = DisplaySettingsDefault
        /\ current = DisplaySettingsDefault
        /\ current_additional_info = <<>>
        /\ tiers_run = <<>>
        /\ matched_tier = 0
        /\ attempts = <<>>
        /\ os_query = NoQuery
        /\ os_devices = <<>>
        /\ tasks = <<>>
        /\ steps = <<>>
        /\ resolved_again = None
        /\ xrandr_stdout = answer
        /\ outputs = <<>>
        /\ xrandr_calls = <<>>
        /\ geom = <<>>
        /\ geometry = None
        /\ files = <<>>
        /\ store_reply = ResultNone
        /\ saved = <<>>
        /\ result = ResultNone
        /\ dpi_request = DisplayConfigSourceDpiScaleGetDefault
        /\ dpi_info = None
        /\ os_dpi = <<>>
        /\ profile = DisplayProfileDefault
        /\ decoded = NothingDecoded

\* query_outputs(active_only): one "xrandr --query", then the parse and the
\* filter.
QueryOutputs ==
    /\ pc = "query_outputs"
    /\ \E active_only \in BOOLEAN :
          \E r \in {query_outputs(xrandr_stdout, active_only)} :
              /\ outputs' = IF r # Panicked /\ r.ok THEN r.value ELSE <<>>
              /\ result' = IF r = Panicked THEN [status |-> "panicked"]
                           ELSE IF r.ok THEN ResultOk
                           ELSE ResultErr(r.call, r.code)
              /\ pc' = IF active_only THEN "query_outputs(true)"
                       ELSE "query_outputs(false)"
    /\ xrandr_calls' = Append(xrandr_calls, <<ArgQuery>>)
    /\ UNCHANGED <<settings, additional_info, input_settings, resolverVars,
                   attempts, os_query, os_devices, codecVars, appVars,
                   resolved_again, xrandr_stdout, geom, geometry, storeVars>>

NextQuery == QueryOutputs

SpecQuery == InitQuery /\ [][NextQuery]_vars

----------------------------------------------------------------------------
(* apply_configuration on a list of outputs of a profile, with what the    *)
(* query prints at that moment.                                            *)

MaxRequested == 2

\* Outputs a profile can list: the primary output as saved; the rotated
\* output, scaled 1.5; an output saved as disabled; an output that is not
\* plugged in now.
RequestedOutputs ==
    { OutputConfig(<<"H", "D", "M", "I", "-", "1">>, TRUE, TRUE, 1920, 1080, 6000, 0, 0, "Normal", 100),
      OutputConfig(<<"D", "P", "-", "2">>, TRUE, FALSE, 1440, 2560, 5994, 1920, -240, "Left", 150),
      OutputConfig(<<"D", "P", "-", "2">>, FALSE, FALSE, 0, 0, 6000, 0, 0, "Normal", 100),
      OutputConfig(<<"V", "G", "A", "-", "1">>, TRUE, FALSE, 1024, 768, 7500, -1024, 0, "Inverted", 100) }

InitApply ==
    \E m \in 0..MaxRequested : \E requested \in [1..m -> RequestedOutputs] :
    \E n \in 0..(MaxXrandrLines - 1) : \E ls \in [1..n -> XrandrLines] :
    \E answer \in XrandrAnswersOf(ls) :
        /\ pc = "apply_configuration"
        /\ settings = DisplaySettingsDefault
        /\ additional_info = <<>>
        /\ input_settings = DisplaySettingsDefault
        /\ current = DisplaySettingsDefault
        /\ current_additional_info = <<>>
        /\ tiers_run = <<>>
        /\ matched_tier = 0
        /\ attempts = <<>>
        /\ os_query = NoQuery
        /\ os_devices = <<>>
        /\ tasks = <<>>
        /\ steps = <<>>
        /\ resolved_again = None
        /\ xrandr_stdout = answer
        /\ outputs = requested
        /\ xrandr_calls = <<>>
        /\ geom = <<>>
        /\ geometry = None
        /\ files = <<>>
        /\ store_reply = ResultNone
        /\ saved = <<>>
        /\ result = ResultNone
        /\ dpi_request = DisplayConfigSourceDpiScaleGetDefault
        /\ dpi_info = None
        /\ os_dpi = <<>>
        /\ profile = DisplayProfileDefault
        /\ decoded = NothingDecoded

\* apply_configuration(outputs): the query, then one xrandr invocation with
\* all the arguments, which can fail to start, exit with a failure or succeed.
ApplyConfiguration ==
    /\ pc = "apply_configuration"
    /\ \E apply_status \in {"spawn_failed", "exit_failure", "success"} :
          \E r \in {apply_configuration(outputs, xrandr_stdout, apply_status)} :
              /\ xrandr_calls' = xrandr_calls \o r.calls
              /\ result' = r.result
    /\ pc' = "done"
    /\ UNCHANGED <<settings, additional_info, input_settings, resolverVars,
                   attempts, os_query, os_devices, codecVars, appVars,
                   resolved_again, xrandr_stdout, outputs, geom, geometry,
                   storeVars>>

NextApply == ApplyConfiguration

SpecApply == InitApply /\ [][NextApply]_vars

----------------------------------------------------------------------------
(* profile/storage.rs: the profile directory.  The directory is a function *)
(* from file names to file contents; a file name and a profile name are    *)
(* texts, a content is the JSON document serde wrote, a function from its  *)
(* keys to their values.                                                   *)

\* The printable ASCII characters in the order of their codes, 32 .. 126
\* (the grave accent, 96, is written "U+0060").
AsciiChars ==
    << " ", "!", "\"", "#", "$", "%", "&", "'", "(", ")", "*", "+", ",",
       "-", ".", "/", "0", "1", "2", "3", "4", "5", "6", "7", "8", "9",
       ":", ";", "<", "=", ">", "?", "@", "A", "B", "C", "D", "E", "F",
       "G", "H", "I", "J", "K", "L", "M", "N", "O", "P", "Q", "R", "S",
       "T", "U", "V", "W", "X", "Y", "Z", "[", "\\", "]", "^", "_",
       "U+0060", "a", "b", "c", "d", "e", "f", "g", "h", "i", "j", "k",
       "l", "m", "n", "o", "p", "q", "r", "s", "t", "u", "v", "w", "x",
       "y", "z", "{", "|", "}", "~" >>

\* The byte of an ASCII character.
CharCode(c) == 31 + Min({i \in DOMAIN AsciiChars : AsciiChars[i] = c})

\* Ord for String: byte by byte, a proper prefix first.
RECURSIVE TextLess(_, _)
TextLess(a, b) ==
    IF a = <<>> THEN b # <<>>
    ELSE IF b = <<>> THEN FALSE
    ELSE IF Head(a) = Head(b) THEN TextLess(Tail(a), Tail(b))
    ELSE CharCode(Head(a)) < CharCode(Head(b))

\* profiles.sort() on the names read_dir gave in whatever order.
RECURSIVE sort(_)
sort(S) ==
    IF S = {} THEN <<>>
    ELSE LET least == CHOOSE x \in S : \A y \in S \ {x} : TextLess(x, y)
         IN  <<least>> \o sort(S \ {least})

invalid_chars == {"\\", "/", ":", "*", "?", "\"", "<", ">", "|"}

reserved_names ==
    { <<"C", "O", "N">>, <<"P", "R", "N">>, <<"A", "U", "X">>,
      <<"N", "U", "L">>, <<"C", "O", "M", "1">>, <<"C", "O", "M", "2">>,
      <<"C", "O", "M", "3">>, <<"C", "O", "M", "4">>,
      <<"C", "O", "M", "5">>, <<"C", "O", "M", "6">>,
      <<"C", "O", "M", "7">>, <<"C", "O", "M", "8">>,
      <<"C", "O", "M", "9">>, <<"L", "P", "T", "1">>,
      <<"L", "P", "T", "2">>, <<"L", "P", "T", "3">>,
      <<"L", "P", "T", "4">>, <<"L", "P", "T", "5">>,
      <<"L", "P", "T", "6">>, <<"L", "P", "T", "7">>,
      <<"L", "P", "T", "8">>, <<"L", "P", "T", "9">> }

IsWhitespace(c) == c \in {" ", "\t", "\n", "\r"}

RECURSIVE trim_start(_)
trim_start(text) ==
    IF text # <<>> /\ IsWhitespace(Head(text)) THEN trim_start(Tail(text)) ELSE text

RECURSIVE trim_end(_)
trim_end(text) ==
    IF text # <<>> /\ IsWhitespace(text[Len(text)])
    THEN trim_end(SubSeq(text, 1, Len(text) - 1))
    ELSE text

trim(text) == trim_end(trim_start(text))

eq_ignore_ascii_case(a, b) == to_lowercase(a) = to_lowercase(b)

\* sanitize_filename: the invalid characters are removed, the rest is
\* trimmed, a reserved device name gets "_" in front and an empty name
\* becomes "profile".
sanitize_filename(name) ==
    LET filtered == SelectSeq(name, LAMBDA c : c \notin invalid_chars)
        trimmed == trim(filtered)
        guarded == IF \E r \in reserved_names : eq_ignore_ascii_case(r, trimmed)
                   THEN <<"_">> \o trimmed
                   ELSE trimmed
    IN  IF guarded = <<>> THEN <<"p", "r", "o", "f", "i", "l", "e">> ELSE guarded

\* get_profile_path: the file "<sanitized name>.json" of the directory.
get_profile_path(name) == sanitize_filename(name) \o <<".", "j", "s", "o", "n">>

\* The positions of "." in a file name.
Dots(file) == {i \in DOMAIN file : file[i] = "."}

\* Path::extension: what follows the last "." of the file name, unless the
\* name has none or only begins with one.
extension(file) ==
    IF Dots(file) = {} \/ Max(Dots(file)) = 1
    THEN None
    ELSE Some(SubSeq(file, Max(Dots(file)) + 1, Len(file)))

\* Path::file_stem: the file name before its last ".", the whole name when
\* there is no extension.
file_stem(file) ==
    IF Dots(file) = {} \/ Max(Dots(file)) = 1
    THEN file
    ELSE SubSeq(file, 1, Max(Dots(file)) - 1)

\* serde_json::to_string_pretty on a DisplayProfile (rename_all =
\* "PascalCase"): DpiScaleInfo is skipped when it is empty.
to_string_pretty(p) ==
    IF p.dpi_scale_info = <<>>
    THEN [ Version |-> p.version, PathInfoArray |-> p.path_info_array,
           ModeInfoArray |-> p.mode_info_array,
           AdditionalInfo |-> p.additional_info ]
    ELSE [ Version |-> p.version, PathInfoArray |-> p.path_info_array,
           ModeInfoArray |-> p.mode_info_array,
           AdditionalInfo |-> p.additional_info,
           DpiScaleInfo |-> p.dpi_scale_info ]

\* serde_json::from_str::<DisplayProfile>: a missing DpiScaleInfo is the
\* default, an empty list.
from_str(json) ==
    DisplayProfile(json.Version, json.PathInfoArray, json.ModeInfoArray,
                   json.AdditionalInfo,
                   IF "DpiScaleInfo" \in DOMAIN json THEN json.DpiScaleInfo ELSE <<>>)

\* fs::write(path, content) on the directory dir.
Written(dir, path, content) ==
    [f \in DOMAIN dir \cup {path} |-> IF f = path THEN content ELSE dir[f]]

\* fs::remove_file(path) on the directory dir.
Removed(dir, path) == [f \in DOMAIN dir \ {path} |-> dir[f]]

\* list_profiles: the stems of the files with the extension "json", sorted.
list_profiles(dir) ==
    Ok(sort({file_stem(f) : f \in {g \in DOMAIN dir : extension(g) = Some(<<"j", "s", "o", "n">>)}}))

profile_exists(dir, name) == Ok(get_profile_path(name) \in DOMAIN dir)

\* save_profile: the directory after the call and what the call returned.
save_profile(dir, name, p) ==
    [ files |-> Written(dir, get_profile_path(name), to_string_pretty(p)),
      result |-> Ok(<<>>) ]

load_profile(dir, name) ==
    IF get_profile_path(name) \in DOMAIN dir
    THEN Ok(from_str(dir[get_profile_path(name)]))
    ELSE Err("fs::read_to_string", "Failed to read profile file")

delete_profile(dir, name) ==
    IF get_profile_path(name) \notin DOMAIN dir
    THEN [ files |-> dir, result |-> Err("delete_profile", "does not exist") ]
    ELSE [ files |-> Removed(dir, get_profile_path(name)), result |-> Ok(<<>>) ]

----------------------------------------------------------------------------
(* The profile store in use: any MaxStoreOps calls of save, load, delete,  *)
(* exists and list on a directory that starts empty.  saved is the map the *)
(* callers expect: the profile last saved under each name that was saved   *)
(* and not deleted since.                                                  *)

MaxStoreOps == 3

\* Profile names a caller passes: plain ones, names with a separator or a
\* blank, the empty name, the placeholder, and a device name.
StoreNames ==
    { <<>>, <<"a">>, <<"b">>, <<"a", "/">>, <<" ", "a">>, <<"/">>,
      <<"p", "r", "o", "f", "i", "l", "e">>, <<"C", "O", "N">>,
      <<"_", "C", "O", "N">>, <<"c", "o", "n">> }

StoreProfiles ==
    { DisplayProfileDefault,
      DisplayProfile(2, <<>>, <<>>, <<>>, <<DpiScaleInfo(0, 150)>>) }

\* The last call: its number, the function, its name argument and what it
\* returned.
StoreReply(seq, op, name, reply) ==
    [ seq |-> seq, op |-> op, name |-> name, reply |-> reply ]

InitStore ==
    /\ pc = "store"
    /\ settings = DisplaySettingsDefault
    /\ additional_info = <<>>
    /\ input_settings = DisplaySettingsDefault
    /\ current = DisplaySettingsDefault
    /\ current_additional_info = <<>>
    /\ tiers_run = <<>>
    /\ matched_tier = 0
    /\ attempts = <<>>
    /\ os_query = NoQuery
    /\ os_devices = <<>>
    /\ tasks = <<>>
    /\ steps = <<>>
    /\ resolved_again = None
    /\ xrandr_stdout = NoXrandrAnswer
    /\ outputs = <<>>
    /\ xrandr_calls = <<>>
    /\ geom = <<>>
    /\ geometry = None
    /\ result = ResultNone
    /\ dpi_request = DisplayConfigSourceDpiScaleGetDefault
    /\ dpi_info = None
    /\ os_dpi = <<>>
    /\ profile = DisplayProfileDefault
    /\ decoded = NothingDecoded
    /\ files = <<>>
    /\ store_reply = StoreReply(0, "none", <<>>, Ok(<<>>))
    /\ saved = <<>>

SaveProfile ==
    /\ pc = "store"
    /\ store_reply.seq < MaxStoreOps
    /\ \E name \in StoreNames, p \in StoreProfiles :
         LET call == save_profile(files, name, p)
         IN  /\ files' = call.files
             /\ store_reply' = StoreReply(store_reply.seq + 1, "save_profile", name, call.result)
             /\ saved' = Written(saved, name, p)
    /\ UNCHANGED <<pc, settings, additional_info, input_settings, resolverVars,
                   attempts, os_query, os_devices, result, codecVars, appVars,
                   resolved_again, linuxVars>>

LoadProfile ==
    /\ pc = "store"
    /\ store_reply.seq < MaxStoreOps
    /\ \E name \in StoreNames :
         store_reply' = StoreReply(store_reply.seq + 1, "load_profile", name,
                                   load_profile(files, name))
    /\ UNCHANGED <<files, saved>>
    /\ UNCHANGED <<pc, settings, additional_info, input_settings, resolverVars,
                   attempts, os_query, os_devices, result, codecVars, appVars,
                   resolved_again, linuxVars>>

DeleteProfile ==
    /\ pc = "store"
    /\ store_reply.seq < MaxStoreOps
    /\ \E name \in StoreNames :
         LET call == delete_profile(files, name)
         IN  /\ files' = call.files
             /\ store_reply' = StoreReply(store_reply.seq + 1, "delete_profile", name, call.result)
             /\ saved' = Removed(saved, name)
    /\ UNCHANGED <<pc, settings, additional_info, input_settings, resolverVars,
                   attempts, os_query, os_devices, result, codecVars, appVars,
                   resolved_again, linuxVars>>

ProfileExists ==
    /\ pc = "store"
    /\ store_reply.seq < MaxStoreOps
    /\ \E name \in StoreNames :
         store_reply' = StoreReply(store_reply.seq + 1, "profile_exists", name,
                                   profile_exists(files, name))
    /\ UNCHANGED <<files, saved>>
    /\ UNCHANGED <<pc, settings, additional_info, input_settings, resolverVars,
                   attempts, os_query, os_devices, result, codecVars, appVars,
                   resolved_again, linuxVars>>

ListProfiles ==
    /\ pc = "store"
    /\ store_reply.seq < MaxStoreOps
    /\ store_reply' = StoreReply(store_reply.seq + 1, "list_profiles", <<>>,
                                 list_profiles(files))
    /\ UNCHANGED <<files, saved>>
    /\ UNCHANGED <<pc, settings, additional_info, input_settings, resolverVars,
                   attempts, os_query, os_devices, result, codecVars, appVars,
                   resolved_again, linuxVars>>

NextStore ==
    \/ SaveProfile
    \/ LoadProfile
    \/ DeleteProfile
    \/ ProfileExists
    \/ ListProfiles

SpecStore == InitStore /\ [][NextStore]_vars

----------------------------------------------------------------------------
(* Properties of the resolver (checked under SpecResolve)                  *)

Resolved == pc = "done" /\ result = ResultOk

StoredPaths == input_settings.path_info_array

StoredModes == input_settings.mode_info_array

LivePaths == current.path_info_array

LiveModes == current.mode_info_array

\* Live paths with the id pair of stored path i.
LivePathsWithPairOf(i) ==
    {j \in DOMAIN LivePaths :
        /\ LivePaths[j].source_info.id = StoredPaths[i].source_info.id
        /\ LivePaths[j].target_info.id = StoredPaths[i].target_info.id}

Tier1CanMatch == \E i \in DOMAIN StoredPaths : LivePathsWithPairOf(i) # {}

\* Live target modes whose valid identity carries the friendly name of the
\* identity stored for mode i.
LiveModesNamedAs(i) ==
    {j \in DOMAIN LiveModes :
        /\ LiveModes[j].info_type = MODE_INFO_TYPE_TARGET
        /\ j \in DOMAIN current_additional_info
        /\ current_additional_info[j].valid
        /\ current_additional_info[j].monitor_friendly_device
             = additional_info[i].monitor_friendly_device}

\* Stored mode i is one Tier 2 has to rewrite.
Tier2Rewrites(i) ==
    /\ StoredModes[i].info_type = MODE_INFO_TYPE_TARGET
    /\ i \in DOMAIN additional_info
    /\ additional_info[i].valid
    /\ additional_info[i].monitor_friendly_device # ""
    /\ LiveModesNamedAs(i) # {}

Tier2CanMatch == \E i \in DOMAIN StoredModes : Tier2Rewrites(i)

\* (Stored path, live path) pairs that share source.id and differ in
\* source.adapter_ref.
StaleSourcePairs ==
    {ij \in (DOMAIN StoredPaths) \X (DOMAIN LivePaths) :
        /\ StoredPaths[ij[1]].source_info.id = LivePaths[ij[2]].source_info.id
        /\ StoredPaths[ij[1]].source_info.adapter_id
             # LivePaths[ij[2]].source_info.adapter_id}

Tier3CanMatch == StaleSourcePairs # {}

InTiersRun(t) == \E k \in DOMAIN tiers_run : tiers_run[k] = t

\* C1: the tiers are applied strictly in order and the first that reports a
\* match ends the resolution: Tier 1 is always entered first, Tier 2 is
\* entered only if Tier 1 matched no path, Tier 3 only if Tier 2 matched no
\* mode either, and whenever Tier 1 can match a path the result is Tier 1's
\* result alone.
C1_TierOrdering ==
    Resolved =>
        /\ tiers_run \in {<<1>>, <<1, 2>>, <<1, 2, 3>>}
        /\ InTiersRun(2) => ~Tier1CanMatch
        /\ InTiersRun(3) => (~Tier1CanMatch /\ ~Tier2CanMatch)
        /\ matched_tier # 0 => tiers_run[Len(tiers_run)] = matched_tier
        /\ Tier1CanMatch =>
              /\ tiers_run = <<1>>
              /\ settings = try_match_by_ids(input_settings, current).settings

\* C1 witness: Tier 1 matched while Tier 2 and Tier 3 could each have matched
\* too, with a rewrite different from the one returned.
C1_Witness ==
    /\ Resolved
    /\ Tier1CanMatch
    /\ Tier2CanMatch
    /\ Tier3CanMatch
    /\ try_match_by_friendly_name(input_settings, additional_info, current,
                                  current_additional_info).settings # settings
    /\ try_bulk_replacement(input_settings, current).settings # settings

\* C2: Tier 1 gives every stored path that has a live path with the same
\* (source.id, target.id) pair the source and target adapter ids of the first
\* such live path, and reports success exactly when some stored path has one.
C2_Tier1Paths ==
    Resolved =>
        /\ (matched_tier = 1) <=> Tier1CanMatch
        /\ \A i \in DOMAIN StoredPaths :
              LivePathsWithPairOf(i) # {} =>
                 LET j == Min(LivePathsWithPairOf(i))
                 IN  /\ settings.path_info_array[i].source_info.adapter_id
                          = LivePaths[j].source_info.adapter_id
                     /\ settings.path_info_array[i].target_info.adapter_id
                          = LivePaths[j].target_info.adapter_id

\* C2 witness: a stored path with two live paths of its id pair on different
\* adapters, rewritten from a stale adapter id.
C2_Witness ==
    /\ Resolved
    /\ \E i \in DOMAIN StoredPaths :
          /\ Cardinality(LivePathsWithPairOf(i)) = 2
          /\ LivePaths[1].source_info.adapter_id # LivePaths[2].source_info.adapter_id
          /\ settings.path_info_array[i].source_info.adapter_id
               # StoredPaths[i].source_info.adapter_id
    /\ \E i \in DOMAIN StoredPaths : LivePathsWithPairOf(i) = {}

\* C3: when Tier 1 matched nothing, Tier 2 rewrites a stored mode exactly
\* when it is a target mode whose stored identity is valid with a non-empty
\* friendly name that a valid live identity of a live target mode also has;
\* the mode then has the adapter id and the id of the first such live mode,
\* and every other mode is as it was stored.
C3_Tier2Modes ==
    (Resolved /\ InTiersRun(2)) =>
        /\ (matched_tier = 2) <=> Tier2CanMatch
        /\ matched_tier = 2 =>
              \A i \in DOMAIN StoredModes :
                 IF Tier2Rewrites(i)
                 THEN LET j == Min(LiveModesNamedAs(i))
                      IN  settings.mode_info_array[i] =
                             [StoredModes[i] EXCEPT
                                !.adapter_id = LiveModes[j].adapter_id,
                                !.id = LiveModes[j].id]
                 ELSE settings.mode_info_array[i] = StoredModes[i]

\* C3 witness: Tier 2 matched; one stored target mode took a new adapter id
\* and a new id from the live mode of the same name, while a stored target
\* mode whose valid identity has no name stayed as stored although a live
\* identity has no name either.
C3_Witness ==
    /\ Resolved
    /\ matched_tier = 2
    /\ \E i \in DOMAIN StoredModes :
          /\ Tier2Rewrites(i)
          /\ settings.mode_info_array[i].id # StoredModes[i].id
          /\ settings.mode_info_array[i].adapter_id # StoredModes[i].adapter_id
    /\ \E i \in DOMAIN StoredModes :
          /\ StoredModes[i].info_type = MODE_INFO_TYPE_TARGET
          /\ additional_info[i].valid
          /\ additional_info[i].monitor_friendly_device = ""
          /\ LiveModesNamedAs(i) # {}
          /\ settings.mode_info_array[i] = StoredModes[i]

\* Adapter id A stood at a place of the stored topology and B stands there
\* in the result, for every place A stood at; A stands nowhere in the result.
EveryOccurrenceBecame(A, B) ==
    /\ \A k \in DOMAIN StoredPaths :
          /\ StoredPaths[k].source_info.adapter_id = A
                => settings.path_info_array[k].source_info.adapter_id = B
          /\ StoredPaths[k].target_info.adapter_id = A
                => settings.path_info_array[k].target_info.adapter_id = B
    /\ \A k \in DOMAIN StoredModes :
          StoredModes[k].adapter_id = A => settings.mode_info_array[k].adapter_id = B
    /\ \A k \in DOMAIN settings.path_info_array :
          /\ settings.path_info_array[k].source_info.adapter_id # A
          /\ settings.path_info_array[k].target_info.adapter_id # A
    /\ \A k \in DOMAIN settings.mode_info_array :
          settings.mode_info_array[k].adapter_id # A

\* The first stale pair in the order of the nested loops: stored paths in
\* order, and for each the live paths in order.
IsFirstStalePair(ij) ==
    /\ ij \in StaleSourcePairs
    /\ \A kl \in StaleSourcePairs :
          \/ ij[1] < kl[1]
          \/ (ij[1] = kl[1] /\ ij[2] <= kl[2])

\* C4 as stated: when Tiers 1 and 2 matched nothing, for a stored path and a
\* live path that share source.id with different source adapter ids A and B,
\* every occurrence of A in the stored topology is B after resolution.
C4_AsStated ==
    (Resolved /\ ~Tier1CanMatch /\ ~Tier2CanMatch) =>
        \A ij \in StaleSourcePairs :
            EveryOccurrenceBecame(
                StoredPaths[ij[1]].source_info.adapter_id,
                LivePaths[ij[2]].source_info.adapter_id)

\* C4 amended: when Tiers 1 and 2 matched nothing, for the first stored path
\* and live path (stored order, then live order) that share source.id with
\* different source adapter ids A and B, every occurrence of A in the stored
\* topology is B after resolution and A occurs nowhere in the result.
C4_Tier3FirstPair ==
    (Resolved /\ ~Tier1CanMatch /\ ~Tier2CanMatch) =>
        /\ (matched_tier = 3) <=> Tier3CanMatch
        /\ \A ij \in StaleSourcePairs :
              IsFirstStalePair(ij) =>
                 EveryOccurrenceBecame(
                     StoredPaths[ij[1]].source_info.adapter_id,
                     LivePaths[ij[2]].source_info.adapter_id)

\* C4 witness: Tier 3 matched and replaced the stale adapter id in a path and
\* in a mode, next to a second stale pair with other adapter ids.
C4_Witness ==
    /\ Resolved
    /\ matched_tier = 3
    /\ Cardinality(StaleSourcePairs) >= 2
    /\ \E k \in DOMAIN StoredModes :
          settings.mode_info_array[k].adapter_id # StoredModes[k].adapter_id
    /\ \E k \in DOMAIN StoredPaths :
          settings.path_info_array[k].target_info.adapter_id
              # StoredPaths[k].target_info.adapter_id

\* C5: when no tier can match, match_adapter_ids returns Ok and the stored
\* topology is the input topology, field for field; the only errors it
\* returns are those of the live capture, made before any tier is entered.
C5_Exhaustion ==
    pc = "done" =>
        /\ result.status \in {"Ok", "Err"}
        /\ result.status = "Err" =>
              /\ result.call \in {"GetDisplayConfigBufferSizes", "QueryDisplayConfig"}
              /\ tiers_run = <<>>
              /\ settings = input_settings
        /\ (Resolved /\ ~Tier1CanMatch /\ ~Tier2CanMatch /\ ~Tier3CanMatch) =>
              /\ matched_tier = 0
              /\ settings = input_settings

\* C5 witness: all three tiers were entered on a stored and a live topology
\* that both have paths and named monitors, and none matched.
C5_Witness ==
    /\ Resolved
    /\ tiers_run = <<1, 2, 3>>
    /\ matched_tier = 0
    /\ StoredPaths # <<>>
    /\ \E j \in DOMAIN LivePaths : \E i \in DOMAIN StoredPaths :
          LivePaths[j].source_info.id = StoredPaths[i].source_info.id
    /\ \E i \in DOMAIN StoredModes :
          i \in DOMAIN additional_info /\ additional_info[i].monitor_friendly_device # ""
    /\ \E j \in DOMAIN LiveModes :
          current_additional_info[j].monitor_friendly_device # ""

\* A path and a mode with their adapter ids blanked.
PathWithoutAdapterRefs(p) ==
    [p EXCEPT !.source_info.adapter_id = LuidDefault,
              !.target_info.adapter_id = LuidDefault]

ModeWithoutAdapterRef(m) == [m EXCEPT !.adapter_id = LuidDefault]

SamePathsExceptAdapterRefs ==
    /\ Len(settings.path_info_array) = Len(StoredPaths)
    /\ \A k \in DOMAIN StoredPaths :
          PathWithoutAdapterRefs(settings.path_info_array[k])
              = PathWithoutAdapterRefs(StoredPaths[k])

\* C6 as stated: the output is the stored topology in every field other than
\* the adapter ids, Mode ids included, whichever tier succeeded.
C6_AsStated ==
    pc = "done" =>
        /\ SamePathsExceptAdapterRefs
        /\ Len(settings.mode_info_array) = Len(StoredModes)
        /\ \A k \in DOMAIN StoredModes :
              ModeWithoutAdapterRef(settings.mode_info_array[k])
                  = ModeWithoutAdapterRef(StoredModes[k])

\* C6 amended: the output is the stored topology in every field other than
\* the adapter ids, except that when Tier 2 succeeded each target Mode it
\* matched by friendly name also carries the live Mode's id.
C6_FrameExceptTier2Ids ==
    pc = "done" =>
        /\ SamePathsExceptAdapterRefs
        /\ Len(settings.mode_info_array) = Len(StoredModes)
        /\ \A k \in DOMAIN StoredModes :
              IF matched_tier = 2 /\ Tier2Rewrites(k)
              THEN [ModeWithoutAdapterRef(settings.mode_info_array[k])
                       EXCEPT !.id = StoredModes[k].id]
                     = ModeWithoutAdapterRef(StoredModes[k])
              ELSE ModeWithoutAdapterRef(settings.mode_info_array[k])
                     = ModeWithoutAdapterRef(StoredModes[k])

\* C6 witness: Tier 1 rewrote the adapter ids of a stored path from a live
\* path that differs from it in other fields too.
C6_Witness ==
    /\ Resolved
    /\ matched_tier = 1
    /\ \E i \in DOMAIN StoredPaths :
          /\ LivePathsWithPairOf(i) # {}
          /\ settings.path_info_array[i] # StoredPaths[i]
          /\ PathWithoutAdapterRefs(LivePaths[Min(LivePathsWithPairOf(i))])
               # PathWithoutAdapterRefs(StoredPaths[i])

----------------------------------------------------------------------------
(* Properties of the commit (checked under SpecCommit)                     *)

\* C7: the first SetDisplayConfig call uses the conservative flags without
\* SDC_ALLOW_CHANGES; a successful first call is the only call; a rejected
\* first call is followed by exactly one more call with the same flags plus
\* SDC_ALLOW_CHANGES; the Result is Ok exactly when some call succeeded, and
\* an error is returned only after two rejected calls, with the status code
\* of the second.
C7_CommitRetry ==
    /\ Len(attempts) <= 2
    /\ Len(attempts) >= 1 =>
          /\ attempts[1].flags =
                {"SDC_APPLY", "SDC_USE_SUPPLIED_DISPLAY_CONFIG",
                 "SDC_SAVE_TO_DATABASE", "SDC_NO_OPTIMIZATION"}
          /\ "SDC_ALLOW_CHANGES" \notin attempts[1].flags
    /\ Len(attempts) = 2 =>
          /\ attempts[1].result # 0
          /\ attempts[2].flags = attempts[1].flags \cup {"SDC_ALLOW_CHANGES"}
    /\ pc = "done" =>
          /\ Len(attempts) >= 1
          /\ attempts[1].result = 0 => Len(attempts) = 1
          /\ attempts[1].result # 0 => Len(attempts) = 2
          /\ (result = ResultOk) <=> (\E k \in DOMAIN attempts : attempts[k].result = 0)
          /\ result # ResultOk =>
                /\ Len(attempts) = 2
                /\ \A k \in DOMAIN attempts : attempts[k].result # 0
                /\ result = ResultErr("SetDisplayConfig", attempts[2].result)
    /\ pc # "done" => result = ResultNone

\* C7 witness: both calls were rejected, with different status codes, and the
\* error carries the second.
C7_Witness ==
    /\ pc = "done"
    /\ Len(attempts) = 2
    /\ attempts[1].result # attempts[2].result
    /\ result.status = "Err"
    /\ result.code = attempts[2].result
    /\ settings.path_info_array # <<>>

----------------------------------------------------------------------------
(* Properties of the capture (checked under SpecCapture)                   *)

\* QueryDisplayConfig was called and succeeded.
QueryAnswered ==
    /\ os_query.sizes_result = 0
    /\ os_query.num_paths # 0
    /\ os_query.num_modes # 0
    /\ os_query.query_result = 0

AvailablePathIndices ==
    {i \in DOMAIN os_query.paths :
        os_query.paths[i].target_info.target_available # 0}

TaggedModeIndices ==
    {i \in DOMAIN os_query.modes : os_query.modes[i].info_type # 0}

\* Position of element i of a list among the elements whose indices are in S.
RankIn(S, i) == Cardinality({j \in S : j <= i})

\* C8: a captured topology holds no path whose target is unavailable and no
\* mode with kind tag 0, and it holds every other path and mode the OS query
\* returned, in the order the OS gave them.
C8_CaptureFiltering ==
    (pc = "done" /\ result = ResultOk) =>
        /\ \A k \in DOMAIN current.path_info_array :
              current.path_info_array[k].target_info.target_available # 0
        /\ \A k \in DOMAIN current.mode_info_array :
              current.mode_info_array[k].info_type # 0
        /\ QueryAnswered =>
              /\ Len(current.path_info_array) = Cardinality(AvailablePathIndices)
              /\ \A i \in AvailablePathIndices :
                    current.path_info_array[RankIn(AvailablePathIndices, i)]
                        = os_query.paths[i]
              /\ Len(current.mode_info_array) = Cardinality(TaggedModeIndices)
              /\ \A i \in TaggedModeIndices :
                    current.mode_info_array[RankIn(TaggedModeIndices, i)]
                        = os_query.modes[i]

\* C8 witness: the OS returned an unavailable path before an available one
\* and an unset mode between two set ones; the capture kept the available
\* path and the two set modes.
C8_Witness ==
    /\ pc = "done"
    /\ result = ResultOk
    /\ QueryAnswered
    /\ Len(os_query.paths) = 2
    /\ os_query.paths[1].target_info.target_available = 0
    /\ Len(os_query.modes) = 3
    /\ os_query.modes[2].info_type = 0
    /\ Len(current.path_info_array) = 1
    /\ Len(current.mode_info_array) = 2

----------------------------------------------------------------------------
(* Properties of the DPI decoding (checked under SpecDpi)                  *)

\* The table of supported percentages, as the specification lists it.
PercentTable == <<100, 125, 150, 175, 200, 225, 250, 300, 350, 400, 450, 500>>

\* The three indices -min_rel, -min_rel + cur_rel and -min_rel + max_rel all
\* lie in the table (0 .. 11).  The first does so only for min_rel in
\* -11 .. 0, and then the other two are small sums.
IndicesInTable(r) ==
    /\ -11 <= r.min_scale_rel /\ r.min_scale_rel <= 0
    /\ r.min_scale_rel <= r.cur_scale_rel /\ r.cur_scale_rel <= r.min_scale_rel + 11
    /\ r.min_scale_rel <= r.max_scale_rel /\ r.max_scale_rel <= r.min_scale_rel + 11

----------------------------------------------------------------------------
(* Properties of the codec (checked under SpecCodec)                       *)

\* The DPI entries of the topology that is encoded: one per path, in path
\* order, whose source has a DPI the OS reports.
TopologyDpiEntries ==
    LET paths == settings.path_info_array
        dpi == [k \in DOMAIN paths |->
                    get_dpi_scaling_info(os_dpi, paths[k].source_info.adapter_id,
                                         paths[k].source_info.id)]
        kept == SelectSeq([k \in DOMAIN paths |-> k], LAMBDA k : dpi[k].some)
    IN  [j \in DOMAIN kept |->
            DpiScaleInfo(paths[kept[j]].source_info.id, dpi[kept[j]].value.current)]

\* The DPI entries of what was decoded: those it carries, if it carries any.
DecodedDpiEntries ==
    IF "dpi_scale_info" \in DOMAIN decoded THEN decoded.dpi_scale_info ELSE <<>>

\* C10: what profile_to_settings reads back from the profile that
\* settings_to_profile wrote equals the encoded topology field for field:
\* every path, every mode with tag and payload, every monitor identity, and
\* the DPI entries.
C10_RoundTrip ==
    pc = "done" =>
        /\ decoded.settings.path_info_array = settings.path_info_array
        /\ decoded.settings.mode_info_array = settings.mode_info_array
        /\ decoded.additional_info = additional_info
        /\ DecodedDpiEntries = TopologyDpiEntries

\* The profile has been written by settings_to_profile.
Encoded == pc \in {"profile_to_settings", "done"}

\* C11: every mode the encoder wrote carries the tag of the mode it was
\* written from and exactly one payload, the one its tag names: a target
\* mode the target payload only, a source mode the source payload only;
\* none carries both payloads or neither.
C11_OnePayloadPerTag ==
    Encoded =>
        /\ Len(profile.mode_info_array) = Len(settings.mode_info_array)
        /\ \A i \in DOMAIN profile.mode_info_array :
              LET m == profile.mode_info_array[i]
              IN  /\ m.info_type = settings.mode_info_array[i].info_type
                  /\ m.info_type = MODE_INFO_TYPE_TARGET =>
                        m.target_mode.some /\ ~m.source_mode.some
                  /\ m.info_type = MODE_INFO_TYPE_SOURCE =>
                        m.source_mode.some /\ ~m.target_mode.some
                  /\ m.target_mode.some # m.source_mode.some

\* C11 witness: a profile written from a capture with a source mode and a
\* target mode, the first with the source payload, the second with the
\* target payload.
C11_Witness ==
    /\ Encoded
    /\ Len(profile.mode_info_array) >= 2
    /\ profile.mode_info_array[1].info_type = MODE_INFO_TYPE_SOURCE
    /\ profile.mode_info_array[1].source_mode.some
    /\ profile.mode_info_array[2].info_type = MODE_INFO_TYPE_TARGET
    /\ profile.mode_info_array[2].target_mode.some

----------------------------------------------------------------------------
(* Properties of the identity probe and its use by the resolver            *)
(* (checked under SpecResolve)                                             *)

\* The OS answered the device-name request for live mode j with success.
DeviceQuerySucceeded(j) ==
    DeviceInfoAnswer(os_devices, LiveModes[j].adapter_id, LiveModes[j].id).result = 0

\* Tier 2 rewrote the stored mode at position i.
RewrittenByTier2(i) ==
    /\ matched_tier = 2
    /\ \/ settings.mode_info_array[i].adapter_id # StoredModes[i].adapter_id
       \/ settings.mode_info_array[i].id # StoredModes[i].id

\* C12: the probe of every live target mode gave an identity, valid exactly
\* when the OS query for that target succeeded and, when it failed, with
\* every field at its default; and a stored mode that the resolver rewrote
\* by friendly name has a valid stored identity and took its adapter_ref and
\* id from a live mode whose identity is valid and bears the same name, so
\* that no name of an invalid identity was used on either side.
C12_ProbeAndValidity ==
    Resolved =>
        /\ Len(current_additional_info) = Len(LiveModes)
        /\ \A j \in DOMAIN LiveModes :
              LiveModes[j].info_type = MODE_INFO_TYPE_TARGET =>
                 /\ current_additional_info[j].valid = DeviceQuerySucceeded(j)
                 /\ ~DeviceQuerySucceeded(j) =>
                       current_additional_info[j] = MonitorAdditionalInfo(0, 0, FALSE, "", "")
        /\ \A i \in DOMAIN StoredModes :
              /\ (i \notin DOMAIN additional_info \/ ~additional_info[i].valid) =>
                    (matched_tier = 2 => settings.mode_info_array[i] = StoredModes[i])
              /\ RewrittenByTier2(i) =>
                    /\ i \in DOMAIN additional_info
                    /\ additional_info[i].valid
                    /\ \E j \in DOMAIN LiveModes :
                          /\ current_additional_info[j].valid
                          /\ current_additional_info[j].monitor_friendly_device
                               = additional_info[i].monitor_friendly_device
                          /\ settings.mode_info_array[i].adapter_id = LiveModes[j].adapter_id
                          /\ settings.mode_info_array[i].id = LiveModes[j].id

\* C12 witness: Tier 2 rewrote one target mode of a profile and left alone
\* another whose stored identity is invalid, against hardware where the
\* probe of one target failed and the probe of another succeeded.
C12_Witness ==
    /\ Resolved
    /\ matched_tier = 2
    /\ \E i \in DOMAIN StoredModes : RewrittenByTier2(i)
    /\ \E i \in DOMAIN StoredModes :
          /\ StoredModes[i].info_type = MODE_INFO_TYPE_TARGET
          /\ i \in DOMAIN additional_info
          /\ ~additional_info[i].valid
          /\ settings.mode_info_array[i] = StoredModes[i]
    /\ \E j \in DOMAIN LiveModes :
          /\ LiveModes[j].info_type = MODE_INFO_TYPE_TARGET
          /\ ~DeviceQuerySucceeded(j)
          /\ ~current_additional_info[j].valid
    /\ \E j \in DOMAIN LiveModes :
          /\ LiveModes[j].info_type = MODE_INFO_TYPE_TARGET
          /\ DeviceQuerySucceeded(j)
          /\ current_additional_info[j].valid

----------------------------------------------------------------------------
(* Properties of the tray menu (checked under SpecTray)                    *)

\* A capture+commit cycle in progress: a load_profile or save_profile that
\* a thread has taken up and that has not returned.
CycleInProgress(k) ==
    /\ tasks[k].command \in {"load_profile", "save_profile"}
    /\ Running(tasks[k])

\* C13: operations dispatched from the tray menu are serialized, each
\* running to completion before the next is taken up: at no time are two
\* capture+commit cycles (two load_profile, or a load_profile and a
\* save_profile) in progress at once.
C13_Serialized ==
    Cardinality({k \in DOMAIN tasks : CycleInProgress(k)}) <= 1

----------------------------------------------------------------------------
(* Properties of the restore pipeline (checked under SpecLoad)             *)

\* The calls of load_profile before the commit, in the order of its body.
RestoreOrder == <<"storage_load", "profile_to_settings", "match_adapter_ids">>

\* The store load, the decode and the resolver's live capture all succeeded.
ReadyToCommit ==
    /\ Len(steps) = Len(RestoreOrder)
    /\ \A k \in DOMAIN steps : steps[k].ok

CommitAttempted == attempts # <<>>

\* C14: load_profile runs store load, decode, identity resolution and
\* commit in this order; the commit is attempted if and only if the store
\* load, the decode and the resolver's live capture all succeeded; an
\* earlier failure is what the caller gets, with no commit attempted; and
\* when no tier matched the commit is still attempted, with the stored
\* topology as it was decoded.
C14_RestorePipeline ==
    /\ Len(steps) <= Len(RestoreOrder)
    /\ \A k \in DOMAIN steps :
          /\ steps[k].call = RestoreOrder[k]
          /\ k < Len(steps) => steps[k].ok
    /\ CommitAttempted => ReadyToCommit
    /\ pc = "done" =>
          /\ CommitAttempted <=> ReadyToCommit
          /\ ~ReadyToCommit =>
                /\ result.status = "Err"
                /\ result.call # "SetDisplayConfig"
    /\ (ReadyToCommit /\ matched_tier = 0) =>
          /\ settings = input_settings
          /\ settings = profile_to_settings(profile).settings
          /\ pc = "done" => CommitAttempted

\* C14 witness: the store load, the decode and the capture succeeded, no
\* tier matched, and the commit was made with the stored topology, both of
\* its attempts being refused.
C14_Witness ==
    /\ pc = "done"
    /\ ReadyToCommit
    /\ tiers_run = <<1, 2, 3>>
    /\ matched_tier = 0
    /\ current.path_info_array # <<>>
    /\ Len(attempts) = 2
    /\ attempts[1].num_paths = Len(input_settings.path_info_array)
    /\ result.status = "Err"

----------------------------------------------------------------------------
(* Mode indices of a captured topology (checked under SpecCapture)         *)

\* In what the OS returned, every path's mode indices are valid: they name
\* a source mode and a target mode of the returned mode array.
OsIndicesValid ==
    \A i \in DOMAIN os_query.paths :
        LET p == os_query.paths[i]
        IN  /\ p.source_info.mode_info_idx + 1 \in DOMAIN os_query.modes
            /\ os_query.modes[p.source_info.mode_info_idx + 1].info_type
                 = MODE_INFO_TYPE_SOURCE
            /\ p.target_info.mode_info_idx + 1 \in DOMAIN os_query.modes
            /\ os_query.modes[p.target_info.mode_info_idx + 1].info_type
                 = MODE_INFO_TYPE_TARGET

\* C15: in every topology a capture returns, also after unset modes and
\* unavailable paths were filtered out of a valid answer of the OS, each
\* path's source and target mode index is a valid index into the returned
\* mode sequence.
C15_ModeIndicesValid ==
    (pc = "done" /\ result = ResultOk /\ QueryAnswered /\ OsIndicesValid) =>
        \A k \in DOMAIN current.path_info_array :
            LET p == current.path_info_array[k]
            IN  /\ p.source_info.mode_info_idx < Len(current.mode_info_array)
                /\ p.target_info.mode_info_idx < Len(current.mode_info_array)

----------------------------------------------------------------------------
(* Alignment of identities and modes (checked under SpecResolve)           *)

\* Positions of the target modes of a mode sequence, in order.
TargetPositions(modes) ==
    SelectSeq([i \in DOMAIN modes |-> i],
              LAMBDA i : modes[i].info_type = MODE_INFO_TYPE_TARGET)

\* The identity the probe gives for live mode j.
ProbeOfLiveMode(j) ==
    get_monitor_additional_info(os_devices, LiveModes[j].adapter_id, LiveModes[j].id)

\* Stored mode i was matched by friendly name through the identity at
\* position n of the stored identity list.
MatchedThroughIdentityAt(i, n) ==
    /\ n \in DOMAIN additional_info
    /\ additional_info[n].valid
    /\ \E j \in DOMAIN LiveModes :
          /\ LiveModes[j].info_type = MODE_INFO_TYPE_TARGET
          /\ current_additional_info[j].valid
          /\ current_additional_info[j].monitor_friendly_device
               = additional_info[n].monitor_friendly_device
          /\ settings.mode_info_array[i].adapter_id = LiveModes[j].adapter_id
          /\ settings.mode_info_array[i].id = LiveModes[j].id

\* C16 as stated: the identity list of a captured topology has one entry
\* per target mode, the k-th entry being the identity of the k-th target
\* mode, and the resolver looks a stored target mode's identity up at its
\* ordinal position among the target modes.
C16_AsStated ==
    Resolved =>
        LET live == TargetPositions(LiveModes)
            stored == TargetPositions(StoredModes)
        IN  /\ Len(current_additional_info) = Len(live)
            /\ \A k \in DOMAIN live :
                  current_additional_info[k] = ProbeOfLiveMode(live[k])
            /\ \A k \in DOMAIN stored :
                  RewrittenByTier2(stored[k]) => MatchedThroughIdentityAt(stored[k], k)

\* C16 (amended): the identity list of a captured topology has one entry
\* per mode; the entry at the position of a target mode is the identity of
\* that target, the entry at the position of any other mode is the default
\* (invalid) identity; and the resolver looks a stored target mode's
\* identity up at the mode's own position in the mode sequence.
C16_AlignedByModePosition ==
    Resolved =>
        /\ Len(current_additional_info) = Len(LiveModes)
        /\ \A j \in DOMAIN LiveModes :
              current_additional_info[j] =
                 IF LiveModes[j].info_type = MODE_INFO_TYPE_TARGET
                 THEN ProbeOfLiveMode(j)
                 ELSE MonitorAdditionalInfo(0, 0, FALSE, "", "")
        /\ \A i \in DOMAIN StoredModes :
              RewrittenByTier2(i) => MatchedThroughIdentityAt(i, i)

\* C16 witness: the live capture has a source mode at position 1 and a
\* named target at position 2, with the identity at position 2; and Tier 2
\* rewrote the stored target mode at position 2 through the stored identity
\* at position 2.
C16_Witness ==
    /\ Resolved
    /\ Len(LiveModes) >= 2
    /\ Len(StoredModes) >= 2
    /\ LiveModes[1].info_type = MODE_INFO_TYPE_SOURCE
    /\ LiveModes[2].info_type = MODE_INFO_TYPE_TARGET
    /\ ~current_additional_info[1].valid
    /\ current_additional_info[2].valid
    /\ StoredModes[2].info_type = MODE_INFO_TYPE_TARGET
    /\ RewrittenByTier2(2)
    /\ MatchedThroughIdentityAt(2, 2)

----------------------------------------------------------------------------
(* Tier 1 and the modes (checked under SpecResolve)                        *)

\* The resolved paths that carry the id of resolved mode i on the side of
\* the mode's kind.
PathsOfMode(i) ==
    LET m == settings.mode_info_array[i]
    IN  {k \in DOMAIN settings.path_info_array :
            \/ /\ m.info_type = MODE_INFO_TYPE_TARGET
               /\ settings.path_info_array[k].target_info.id = m.id
            \/ /\ m.info_type = MODE_INFO_TYPE_SOURCE
               /\ settings.path_info_array[k].source_info.id = m.id}

\* The adapter_ref of resolved path k on the side of the kind of mode i.
PathAdapterForMode(k, i) ==
    IF settings.mode_info_array[i].info_type = MODE_INFO_TYPE_TARGET
    THEN settings.path_info_array[k].target_info.adapter_id
    ELSE settings.path_info_array[k].source_info.adapter_id

\* C17: after Tier 1 succeeded, every stored mode whose id some stored path
\* carries (target.id for a target mode, source.id for a source mode) has
\* the rewritten adapter_ref of such a path, taken from the side of the
\* mode's kind.
C17_Tier1ModePropagation ==
    (Resolved /\ matched_tier = 1) =>
        \A i \in DOMAIN settings.mode_info_array :
            PathsOfMode(i) # {} =>
                \E k \in PathsOfMode(i) :
                    settings.mode_info_array[i].adapter_id = PathAdapterForMode(k, i)


\* ---------------------------------------------------------------------------
\* Tier 2 path re-derivation
\* ---------------------------------------------------------------------------

\* Source adapter ids of the live paths with the source id of stored path k.
LiveSourceAdaptersFor(k) ==
    {LivePaths[j].source_info.adapter_id : j \in
        {j \in DOMAIN LivePaths :
            LivePaths[j].source_info.id = StoredPaths[k].source_info.id}}

\* Target adapter ids of the live paths with the target id of stored path k.
LiveTargetAdaptersFor(k) ==
    {LivePaths[j].target_info.adapter_id : j \in
        {j \in DOMAIN LivePaths :
            LivePaths[j].target_info.id = StoredPaths[k].target_info.id}}

\* Path k of the result is the stored path k but for the two adapter ids.
OnlyAdaptersOfPathChanged(k) ==
    settings.path_info_array[k] =
        [StoredPaths[k] EXCEPT
            !.source_info.adapter_id =
                settings.path_info_array[k].source_info.adapter_id,
            !.target_info.adapter_id =
                settings.path_info_array[k].target_info.adapter_id]

\* C18: after Tier 2 matched a mode, the source adapter id of each stored
\* path is that of a live path with the same source id if there is one and
\* the stored one otherwise, and on its own the target adapter id is that of
\* a live path with the same target id if there is one and the stored one
\* otherwise; when Tier 2 was entered and matched no mode and no later tier
\* matched, every path is the stored path.
C18_Tier2PathRederivation ==
    Resolved =>
        /\ (matched_tier = 2) =>
              /\ Len(settings.path_info_array) = Len(StoredPaths)
              /\ \A k \in DOMAIN StoredPaths :
                    /\ OnlyAdaptersOfPathChanged(k)
                    /\ IF LiveSourceAdaptersFor(k) # {}
                       THEN settings.path_info_array[k].source_info.adapter_id
                               \in LiveSourceAdaptersFor(k)
                       ELSE settings.path_info_array[k].source_info.adapter_id
                               = StoredPaths[k].source_info.adapter_id
                    /\ IF LiveTargetAdaptersFor(k) # {}
                       THEN settings.path_info_array[k].target_info.adapter_id
                               \in LiveTargetAdaptersFor(k)
                       ELSE settings.path_info_array[k].target_info.adapter_id
                               = StoredPaths[k].target_info.adapter_id
        /\ (InTiersRun(2) /\ matched_tier = 0) =>
              settings.path_info_array = StoredPaths

\* C18 witness: Tier 2 matched, and one stored path had its source adapter id
\* taken from a live path while no live path has its target id, so that its
\* stale target adapter id stayed.
C18_Witness ==
    /\ Resolved
    /\ matched_tier = 2
    /\ \E k \in DOMAIN StoredPaths :
          /\ LiveSourceAdaptersFor(k) # {}
          /\ settings.path_info_array[k].source_info.adapter_id
                # StoredPaths[k].source_info.adapter_id
          /\ LiveTargetAdaptersFor(k) = {}
          /\ settings.path_info_array[k].target_info.adapter_id
                = StoredPaths[k].target_info.adapter_id
          /\ \A j \in DOMAIN LivePaths :
                settings.path_info_array[k].target_info.adapter_id
                    # LivePaths[j].target_info.adapter_id


\* ---------------------------------------------------------------------------
\* Tier 3 selection
\* ---------------------------------------------------------------------------

\* (Stored path, live path) pairs that share source.id, stale or not.
SameSourcePairs ==
    {ij \in (DOMAIN StoredPaths) \X (DOMAIN LivePaths) :
        StoredPaths[ij[1]].source_info.id = LivePaths[ij[2]].source_info.id}

\* Pair ij comes before pair kl in the order of the nested loops.
BeforeInLoopOrder(ij, kl) ==
    \/ ij[1] < kl[1]
    \/ (ij[1] = kl[1] /\ ij[2] < kl[2])

\* The result is the stored topology with adapter id A replaced by B at every
\* place and every other adapter id, and every other field, as stored.
OneSubstitution(A, B) ==
    /\ settings.path_info_array =
          [k \in DOMAIN StoredPaths |->
              [StoredPaths[k] EXCEPT
                  !.source_info.adapter_id = IF @ = A THEN B ELSE @,
                  !.target_info.adapter_id = IF @ = A THEN B ELSE @]]
    /\ settings.mode_info_array =
          [k \in DOMAIN StoredModes |->
              [StoredModes[k] EXCEPT !.adapter_id = IF @ = A THEN B ELSE @]]

\* C19: when Tier 3 is entered it succeeds exactly when some stored path and
\* some live path share source.id and differ in source adapter id; it then
\* takes the first such pair in the order stored paths, then live paths,
\* passing over the pairs whose adapter ids are equal, and the result is the
\* stored topology with that pair's stored adapter id replaced by its live
\* adapter id and every other adapter id unchanged.
C19_Tier3Selection ==
    (Resolved /\ InTiersRun(3)) =>
        /\ (matched_tier = 3) <=> (StaleSourcePairs # {})
        /\ (matched_tier = 3) =>
              \E ij \in StaleSourcePairs :
                 /\ IsFirstStalePair(ij)
                 /\ OneSubstitution(
                        StoredPaths[ij[1]].source_info.adapter_id,
                        LivePaths[ij[2]].source_info.adapter_id)

\* C19 witness: Tier 3 matched on a pair that comes after a pair with equal
\* source id and equal adapter ids, and an adapter id other than the stale
\* one stands unchanged in a path of the result.
C19_Witness ==
    /\ Resolved
    /\ matched_tier = 3
    /\ \E ij \in StaleSourcePairs :
          /\ IsFirstStalePair(ij)
          /\ \E kl \in SameSourcePairs \ StaleSourcePairs :
                BeforeInLoopOrder(kl, ij)
          /\ \E k \in DOMAIN StoredPaths :
                /\ StoredPaths[k].target_info.adapter_id
                      # StoredPaths[ij[1]].source_info.adapter_id
                /\ settings.path_info_array[k].target_info.adapter_id
                      = StoredPaths[k].target_info.adapter_id


\* ---------------------------------------------------------------------------
\* Tiers and failure
\* ---------------------------------------------------------------------------

\* Stored mode i would be rewritten by the mode loop of Tier 1: a stored path
\* carries its id on its side, and a live mode of its kind and id has another
\* adapter id.
Tier1ModeLoopWouldRewrite(i) ==
    /\ \E k \in DOMAIN StoredPaths :
          \/ /\ StoredModes[i].info_type = MODE_INFO_TYPE_TARGET
             /\ StoredModes[i].id = StoredPaths[k].target_info.id
          \/ /\ StoredModes[i].info_type = MODE_INFO_TYPE_SOURCE
             /\ StoredModes[i].id = StoredPaths[k].source_info.id
    /\ \E j \in DOMAIN LiveModes :
          /\ LiveModes[j].info_type = StoredModes[i].info_type
          /\ LiveModes[j].id = StoredModes[i].id
          /\ LiveModes[j].adapter_id # StoredModes[i].adapter_id

\* C20: a tier that reports no match hands the stored topology on as it
\* received it: the result of the resolver is the result of the tier that
\* matched applied to the stored topology S as it was passed in, and S itself
\* when no tier matched; the live topology is the captured one, unchanged by
\* the tiers.
C20_TiersPureOnFailure ==
    Resolved =>
        /\ (matched_tier = 1) =>
              settings = try_match_by_ids(input_settings, current).settings
        /\ (matched_tier = 2) =>
              settings = try_match_by_friendly_name(
                             input_settings, additional_info,
                             current, current_additional_info).settings
        /\ (matched_tier = 3) =>
              settings = try_bulk_replacement(input_settings, current).settings
        /\ (matched_tier = 0) => settings = input_settings
        /\ \E live \in Captures :
              /\ current = live.settings
              /\ current_additional_info = live.infos

\* C20 witness: the three tiers ran and none matched, while a stored mode has
\* a live mode of its kind and id on another adapter and a stored path that
\* carries its id; the result is the stored topology.
C20_Witness ==
    /\ Resolved
    /\ tiers_run = <<1, 2, 3>>
    /\ matched_tier = 0
    /\ \E i \in DOMAIN StoredModes : Tier1ModeLoopWouldRewrite(i)
    /\ settings = input_settings


\* ---------------------------------------------------------------------------
\* Adapter ids of the result and of the live topology
\* ---------------------------------------------------------------------------

\* Adapter ids that occur in the live topology, in a path or in a mode.
LiveAdapterRefs ==
    {LivePaths[j].source_info.adapter_id : j \in DOMAIN LivePaths}
      \cup {LivePaths[j].target_info.adapter_id : j \in DOMAIN LivePaths}
      \cup {LiveModes[j].adapter_id : j \in DOMAIN LiveModes}

\* Adapter ids that occur in the result, in a path or in a mode.
ResultAdapterRefs ==
    {settings.path_info_array[k].source_info.adapter_id :
        k \in DOMAIN settings.path_info_array}
      \cup {settings.path_info_array[k].target_info.adapter_id :
              k \in DOMAIN settings.path_info_array}
      \cup {settings.mode_info_array[k].adapter_id :
              k \in DOMAIN settings.mode_info_array}

\* C21: whenever some tier succeeded, every adapter id of the result, in each
\* path's source and target and in each mode, occurs in the live topology.
C21_AdapterRefsLive ==
    (Resolved /\ matched_tier # 0) => ResultAdapterRefs \subseteq LiveAdapterRefs


----------------------------------------------------------------------------
(* Properties of the decoder (checked under SpecDecode)                    *)

\* profile_to_settings has returned.
Decoded == pc = "done"

\* The decoded mode at position i holds the bytes of the persisted target
\* payload.
DecodedAsTarget(i) ==
    /\ profile.mode_info_array[i].target_mode.some
    /\ decoded.settings.mode_info_array[i].mode_data
          = set_target_mode(profile.mode_info_array[i].target_mode.value)

\* The decoded mode at position i holds the bytes of the persisted source
\* payload.
DecodedAsSource(i) ==
    /\ profile.mode_info_array[i].source_mode.some
    /\ decoded.settings.mode_info_array[i].mode_data
          = set_source_mode(profile.mode_info_array[i].source_mode.value)

\* C22: on decode the tag alone selects the payload: a decoded mode holds the
\* target payload only when the persisted tag is Target and the source
\* payload only when the persisted tag is Source, whatever payload fields
\* the persisted mode carries.
C22_TagSoleDiscriminator ==
    Decoded =>
        \A i \in DOMAIN profile.mode_info_array :
            /\ DecodedAsTarget(i) =>
                  profile.mode_info_array[i].info_type = MODE_INFO_TYPE_TARGET
            /\ DecodedAsSource(i) =>
                  profile.mode_info_array[i].info_type = MODE_INFO_TYPE_SOURCE


----------------------------------------------------------------------------
(* Properties of apply_configuration (checked under SpecApply)             *)

\* apply_configuration has returned.
Applied == pc = "done" /\ xrandr_calls # <<>>

\* The preliminary query ran and exited with success.
QuerySucceeded == xrandr_stdout.status = "success"

\* The outputs the query reports now.
CurrentOutputs == parse_xrandr_output(xrandr_stdout.lines).value

ListedNames == {outputs[i].name : i \in DOMAIN outputs}

\* The currently enabled outputs that the list does not name, in the order
\* of the query.
EnabledUnlisted ==
    SelectSeq(CurrentOutputs, LAMBDA o : o.enabled /\ o.name \notin ListedNames)

\* The arguments of the xrandr invocation that applies.
AppliedArgs == xrandr_calls[2]

\* Positions of the "--output" arguments, ascending.
OutputArgPositions ==
    SelectSeq([p \in DOMAIN AppliedArgs |-> p], LAMBDA p : AppliedArgs[p] = ArgOutput)

\* The g-th group of arguments: from the g-th "--output" up to the next one.
ArgGroup(g) ==
    SubSeq(AppliedArgs, OutputArgPositions[g],
           IF g < Len(OutputArgPositions) THEN OutputArgPositions[g + 1] - 1
           ELSE Len(AppliedArgs))

\* A group configures the listed output o: its name, and then "--off" alone
\* if it is disabled, mode, rate, position and rotation first if enabled.
ConfiguresListed(group, o) ==
    /\ Len(group) >= 3
    /\ group[2] = o.name
    /\ ~o.enabled => group = <<ArgOutput, o.name, ArgOff>>
    /\ o.enabled =>
          /\ Len(group) >= 10
          /\ SubSeq(group, 3, 10) =
                <<ArgMode, FormatNat(o.width) \o <<"x">> \o FormatNat(o.height),
                  ArgRate, FormatTwoDecimals(o.refresh_rate),
                  ArgPos, FormatInt(o.pos_x) \o <<"x">> \o FormatInt(o.pos_y),
                  ArgRotate, to_xrandr_arg(o.rotation)>>
          /\ \A k \in DOMAIN group : group[k] # ArgOff

\* C23: when the preliminary query fails, the query is the only xrandr
\* invocation and its error is returned; otherwise there is exactly one more
\* invocation, whose arguments are, first, "--output NAME --off" for every
\* currently enabled output the list does not name, and then one group for
\* every output of the list, in order: mode, rate, position and rotation if
\* it is enabled, "--off" if it is disabled.
C23_ApplyConfiguration ==
    Applied =>
        /\ ~QuerySucceeded =>
              /\ xrandr_calls = <<<<ArgQuery>>>>
              /\ result.status = "Err"
        /\ QuerySucceeded =>
              /\ Len(xrandr_calls) = 2
              /\ xrandr_calls[1] = <<ArgQuery>>
              /\ Len(OutputArgPositions) = Len(EnabledUnlisted) + Len(outputs)
              /\ AppliedArgs # <<>> => AppliedArgs[1] = ArgOutput
              /\ \A g \in DOMAIN EnabledUnlisted :
                    ArgGroup(g) = <<ArgOutput, EnabledUnlisted[g].name, ArgOff>>
              /\ \A i \in DOMAIN outputs :
                    ConfiguresListed(ArgGroup(Len(EnabledUnlisted) + i), outputs[i])

\* C23 witness: the query succeeded and reports an enabled output the list
\* does not name; the list holds a disabled and an enabled output; xrandr was
\* invoked once more and returned success.
C23_Witness ==
    /\ Applied
    /\ QuerySucceeded
    /\ EnabledUnlisted # <<>>
    /\ \E i, j \in DOMAIN outputs : outputs[i].enabled /\ ~outputs[j].enabled
    /\ Len(xrandr_calls) = 2
    /\ result = ResultOk


----------------------------------------------------------------------------
(* Properties of query_outputs (checked under SpecQuery)                   *)

\* query_outputs has returned.
Queried == pc \in {"query_outputs(true)", "query_outputs(false)"}

\* The header lines of the answer, in order: each starts one output.
HeaderLines == SelectSeq(xrandr_stdout.lines, IsHeaderLine)

\* The header line reports its output as disconnected.
ReportsDisconnected(line) ==
    Len(line.parts) >= 2 /\ line.parts[2] = WordDisconnected

\* C24: for every sequence of lines, the k-th parsed output is that of the
\* k-th header line, and it is disabled when that line reports it as
\* disconnected, whatever lines follow; query_outputs(true) returns exactly
\* the parsed outputs that are enabled, in order, and so none that a header
\* line reports as disconnected; query_outputs(false) returns them all.
C24_DisconnectedIsDisabled ==
    (Queried /\ QuerySucceeded) =>
        /\ Len(CurrentOutputs) = Len(HeaderLines)
        /\ \A k \in DOMAIN HeaderLines :
              /\ CurrentOutputs[k].name = HeaderLines[k].parts[1]
              /\ ReportsDisconnected(HeaderLines[k]) => ~CurrentOutputs[k].enabled
        /\ pc = "query_outputs(true)" =>
              outputs = SelectSeq(CurrentOutputs, LAMBDA o : o.enabled)
        /\ pc = "query_outputs(false)" => outputs = CurrentOutputs


----------------------------------------------------------------------------
(* Properties of parse_geometry and parse_position (checked under          *)
(* SpecGeometry)                                                           *)

Signs == {"+", "-"}

\* The characters of geom from position a to position b are digits, one at
\* least.
DigitsAt(a, b) == a <= b /\ \A k \in a..b : geom[k] \in Digits

NumberAt(a, b) == DecimalValue(SubSeq(geom, a, b))

\* The coordinate written with the sign at position s and the digits up to
\* position b.
CoordinateAt(s, b) ==
    IF geom[s] = "-" THEN -NumberAt(s + 1, b) ELSE NumberAt(s + 1, b)

\* A sign and digits, twice, from position s to the end of geom: the sign of
\* Y stands at j.
IsPositionFrom(s, j) ==
    /\ s < j /\ j < Len(geom)
    /\ geom[s] \in Signs /\ geom[j] \in Signs
    /\ DigitsAt(s + 1, j - 1)
    /\ DigitsAt(j + 1, Len(geom))

\* A "+" gave a coordinate that is not negative, a "-" a negative one.
SignRespected(s, coordinate) ==
    /\ geom[s] = "+" => coordinate >= 0
    /\ geom[s] = "-" => coordinate < 0

XPositions == {i \in DOMAIN geom : geom[i] = "x"}

\* The text between the "x" at position i and the first sign after it (the
\* end of geom when there is none): where the height stands.
HeightText(i) ==
    LET S == {k \in (i + 1)..Len(geom) : geom[k] \in Signs}
    IN  SubSeq(geom, i + 1, IF S = {} THEN Len(geom) ELSE Min(S) - 1)

\* The text is not that of a number: it is empty or holds a character that
\* is neither a digit nor a sign.
NonNumeric(text) ==
    text = <<>> \/ \E k \in DOMAIN text : text[k] \notin Digits \cup Signs

\* C25: parse_geometry of W "x" H followed by a signed X and a signed Y is
\* ((W, H), (X, Y)), a "+" giving a coordinate that is not negative and a
\* "-" a negative one; of W "x" H alone it is ((W, H), (0, 0)); of a text
\* without exactly one "x", or with a width or height that is no number, it
\* is None.  parse_position of a signed X and a signed Y is (X, Y) with the
\* same signs.
C25_ParseGeometry ==
    /\ pc = "parse_geometry" =>
          /\ \A i, s, j \in DOMAIN geom :
                (geom[i] = "x" /\ DigitsAt(1, i - 1) /\ DigitsAt(i + 1, s - 1)
                   /\ IsPositionFrom(s, j)) =>
                   /\ geometry = Some(<<<<NumberAt(1, i - 1), NumberAt(i + 1, s - 1)>>,
                                        <<CoordinateAt(s, j - 1),
                                          CoordinateAt(j, Len(geom))>>>>)
                   /\ SignRespected(s, geometry.value[2][1])
                   /\ SignRespected(j, geometry.value[2][2])
          /\ \A i \in DOMAIN geom :
                (geom[i] = "x" /\ DigitsAt(1, i - 1) /\ DigitsAt(i + 1, Len(geom))) =>
                   geometry = Some(<<<<NumberAt(1, i - 1), NumberAt(i + 1, Len(geom))>>,
                                     <<0, 0>>>>)
          /\ Cardinality(XPositions) # 1 => geometry = None
          /\ \A i \in XPositions :
                (Cardinality(XPositions) = 1
                   /\ (NonNumeric(SubSeq(geom, 1, i - 1)) \/ NonNumeric(HeightText(i))))
                   => geometry = None
    /\ pc = "parse_position" =>
          \A j \in DOMAIN geom :
              IsPositionFrom(1, j) =>
                 /\ geometry = Some(<<CoordinateAt(1, j - 1), CoordinateAt(j, Len(geom))>>)
                 /\ SignRespected(1, geometry.value[1])
                 /\ SignRespected(j, geometry.value[2])


----------------------------------------------------------------------------
(* Algebraic properties of the resolver                                    *)

\* match_adapter_ids has returned for the second time.
ResolvedAgain == pc = "done_again"

\* C26: resolving the result of a resolution again, against the same live
\* topology and with the same stored identities, gives the same topology as
\* the first resolution (checked under SpecResolveAgain).
C26_Idempotent ==
    ResolvedAgain => resolved_again.value.settings = settings


\* The stored topology and identities are the live ones: a profile saved and
\* loaded in one session, with no change of the hardware.
StoredIsLive ==
    /\ input_settings = current
    /\ additional_info = current_additional_info

\* C27: when the stored topology and its identities equal the live topology
\* and its identities, match_adapter_ids leaves every field of every path
\* and mode as it was (checked under SpecResolve).
C27_ResolveAgainstOneself ==
    (Resolved /\ StoredIsLive) => settings = input_settings


\* Stored mode i is a target mode that Tier 2 matched by friendly name.
MatchedByFriendlyName(i) ==
    /\ matched_tier = 2
    /\ Tier2Rewrites(i)

\* The (adapter_ref, id) pair mode i carries after the resolution.
ResolvedPair(i) ==
    <<settings.mode_info_array[i].adapter_id, settings.mode_info_array[i].id>>

\* The (adapter_ref, id) pair stored for mode i.
StoredPair(i) == <<StoredModes[i].adapter_id, StoredModes[i].id>>

\* C28: after Tier 2 succeeds, two stored target modes of different monitors
\* (different stored (adapter_ref, id) pairs) that were both matched by
\* friendly name carry different live (adapter_ref, id) pairs, also when
\* monitors share one friendly name (checked under SpecResolve).
C28_Tier2Injective ==
    Resolved =>
        \A i, k \in DOMAIN StoredModes :
            (/\ MatchedByFriendlyName(i)
             /\ MatchedByFriendlyName(k)
             /\ StoredPair(i) # StoredPair(k))
                => ResolvedPair(i) # ResolvedPair(k)


----------------------------------------------------------------------------
(* The range to_dpi_info reports (checked under SpecDpi)                   *)

\* p is one of the percentages of the table.
InPercentTable(p) == \E i \in DOMAIN PercentTable : PercentTable[i] = p

\* The reported range is consistent: 100 <= current <= maximum and
\* 100 <= recommended <= maximum, all members of the table.
ConsistentRange(info) ==
    /\ info.minimum = 100
    /\ info.minimum <= info.current /\ info.current <= info.maximum
    /\ info.minimum <= info.recommended /\ info.recommended <= info.maximum
    /\ InPercentTable(info.current)
    /\ InPercentTable(info.recommended)
    /\ InPercentTable(info.maximum)

\* C29: for every triple (min_rel, cur_rel, max_rel) of 32-bit integers,
\* to_dpi_info computes without arithmetic overflow, and whenever it returns
\* a value the reported range is consistent.
C29_DpiRangeConsistent ==
    pc = "done" =>
        /\ ~to_dpi_info_overflows(dpi_request)
        /\ dpi_info.some => ConsistentRange(dpi_info.value)


----------------------------------------------------------------------------
(* Properties of the profile store (checked under SpecStore)               *)

\* The call a step makes.
StoreCall == store_reply'

\* A step that is save(n, p): afterwards exists(n) is true and load(n)
\* returns p, and load(m) of every other name m returns what it did.
SaveStep ==
    StoreCall.op = "save_profile" =>
        /\ profile_exists(files', StoreCall.name) = Ok(TRUE)
        /\ load_profile(files', StoreCall.name) = Ok(saved'[StoreCall.name])
        /\ \A m \in StoreNames \ {StoreCall.name} :
               load_profile(files', m) = load_profile(files, m)

\* A step that is delete(n): load(m) of every other name m returns what it
\* did; when n was not saved, or was deleted since, the call returns an
\* error and the directory is as it was.
DeleteStep ==
    StoreCall.op = "delete_profile" =>
        /\ \A m \in StoreNames \ {StoreCall.name} :
               load_profile(files', m) = load_profile(files, m)
        /\ StoreCall.name \notin DOMAIN saved =>
               ~StoreCall.reply.ok /\ files' = files

\* A step that is load(n) or exists(n) of a name saved and not deleted
\* since: it returns the profile last saved under n, and true.
ReadStep ==
    /\ (StoreCall.op = "load_profile" /\ StoreCall.name \in DOMAIN saved)
           => StoreCall.reply = Ok(saved[StoreCall.name])
    /\ (StoreCall.op = "profile_exists" /\ StoreCall.name \in DOMAIN saved)
           => StoreCall.reply = Ok(TRUE)

\* A step that is list(): it returns the names saved and not deleted since,
\* sorted ascending.
ListStep ==
    StoreCall.op = "list_profiles" => StoreCall.reply = Ok(sort(DOMAIN saved))

\* C30: over any sequence of save, load, delete, exists and list the store
\* is a map keyed by the profile name: save(n, p) makes exists(n) true and
\* load(n) return p until n is saved or deleted again, a save or delete of
\* another name does not change what load(n) returns, delete of a name that
\* does not exist is an error that changes nothing, and list() returns the
\* sorted names saved and not since deleted.
C30_StoreIsMap ==
    [][SaveStep /\ DeleteStep /\ ReadStep /\ ListStep]_vars
============================================================================
